---- MODULE Spec2Model ----
(***************************************************************************)
(* Model of the tree-sitter-vscode semantic tokens provider                *)
(* (src/src/extension.ts, lines 318-754).                                  *)
(*                                                                         *)
(* Positions are records [line, character] (vscode.Position) or            *)
(* [row, column] (Parser.Point); ranges are [start, end] records built by  *)
(* Range, which orders its two ends as the vscode.Range constructor does.  *)
(* Capture names and token types are strings; a token is                   *)
(* [range, type, modifiers] with modifiers a sequence of strings.          *)
(***************************************************************************)
EXTENDS Integers, Sequences, FiniteSets, TLC

VARIABLES
    configs,          \* SemanticTokensProvider.configs: sequence of Config
    tsLangs,          \* SemanticTokensProvider.tsLangs: language id -> Language
    currentLanguage,  \* SemanticTokensProvider.currentLanguage
    world,            \* what the parsers and queries return for each text
    requests,         \* the calls of provideDocumentSemanticTokens
    vscode,           \* the extension host: settings, registration, disposed providers
    pc,               \* position of the function call under study
    args,             \* its arguments
    result            \* its outcome

vars == <<configs, tsLangs, currentLanguage, world, requests, vscode, pc, args, result>>

(***************************************************************************)
(* Bounds of the explored inputs.                                          *)
(***************************************************************************)
MaxLine == 3
MaxCol == 2
MaxMappings == 2   \* entries of a mapping table
MaxCaptures == 3   \* captures of one highlight query run
MaxTokLine == 1    \* last line of the captures' grid
MaxTokCol == 3     \* last column of the captures' grid
MaxMergeCol == 2   \* last column of the grid of the merge

(***************************************************************************)
(* Legend (extension.ts 325-333).                                          *)
(***************************************************************************)
TOKEN_TYPES ==
    << "namespace", "class", "enum", "interface", "struct", "typeParameter",
       "type", "parameter", "variable", "property", "enumMember", "decorator",
       "event", "function", "method", "macro", "label", "comment", "string",
       "keyword", "number", "regexp", "operator" >>

TOKEN_MODIFIERS ==
    << "declaration", "definition", "readonly", "static", "deprecated",
       "abstract", "async", "modification", "documentation", "defaultLibrary" >>

\* Array.prototype.includes
includes(arr, x) == \E i \in 1..Len(arr) : arr[i] = x

\* Array.prototype.flat on an array of arrays
RECURSIVE flat(_)
flat(arrs) == IF arrs = <<>> THEN <<>> ELSE Head(arrs) \o flat(Tail(arrs))

(***************************************************************************)
(* Values of JavaScript.                                                   *)
(***************************************************************************)
\* undefined, and a value that may be undefined
Undefined == <<>>
Some(v) == <<v>>

\* A value whose type the code cannot know before it runs (the settings,
\* the value of a query directive) is a record of its type and, in a field
\* of its own name for each type, what it holds; the type is the one typeof
\* gives, except for the two objects the code tells apart: a list is "array"
\* (Array.isArray) and null is JNull.
JString(v) == [type |-> "string", string |-> v]
JBoolean(v) == [type |-> "boolean", boolean |-> v]
JNumber(v) == [type |-> "number", number |-> v]
JObject(v) == [type |-> "object", properties |-> v]
JArray(v) == [type |-> "array", elements |-> v]
JNull == [type |-> "null"]

(***************************************************************************)
(* vscode.Position and vscode.Range, as far as the extension uses them.    *)
(***************************************************************************)
Position(l, c) == [line |-> l, character |-> c]

compareTo(a, b) ==
    IF a.line < b.line THEN -1
    ELSE IF a.line > b.line THEN 1
    ELSE IF a.character < b.character THEN -1
    ELSE IF a.character > b.character THEN 1
    ELSE 0

isBefore(a, b) == compareTo(a, b) < 0
isAfter(a, b) == compareTo(a, b) > 0

\* new vscode.Range(start, end): the ends are swapped when start is after end
Range(a, b) == IF isBefore(b, a) THEN [start |-> b, end |-> a] ELSE [start |-> a, end |-> b]

isEqual(r, s) == r.start = s.start /\ r.end = s.end

\* Range.contains(range): both ends of s lie in r
contains(r, s) ==
    /\ ~isBefore(s.start, r.start) /\ ~isBefore(r.end, s.start)
    /\ ~isBefore(s.end, r.start) /\ ~isBefore(r.end, s.end)

\* Range.intersection(range): the empty set stands for undefined
intersection(r, s) ==
    LET st == IF isBefore(r.start, s.start) THEN s.start ELSE r.start
        en == IF isBefore(r.end, s.end) THEN r.end ELSE s.end
    IN  IF isAfter(st, en) THEN {} ELSE {Range(st, en)}

(***************************************************************************)
(* Free functions of extension.ts.                                         *)
(***************************************************************************)
\* convertPosition (448-451): Parser.Point -> vscode.Position
convertPosition(pos) == Position(pos.row, pos.column)

\* an addPosition that adds the column on every line
addPositionEveryLine(range, pos) ==
    Range(Position(range.start.line + pos.line, range.start.character + pos.character),
          Position(range.end.line + pos.line, range.end.character + pos.character))

\* addPosition (453-461)
addPosition(range, pos) ==
    LET start == IF range.start.line = 0
                 THEN Position(range.start.line + pos.line, range.start.character + pos.character)
                 ELSE Position(range.start.line + pos.line, range.start.character)
        end   == IF range.end.line = 0
                 THEN Position(range.end.line + pos.line, range.end.character + pos.character)
                 ELSE Position(range.end.line + pos.line, range.end.character)
    IN  Range(start, end)

\* String.prototype.split("."): the segments between the dots, empty ones kept
RECURSIVE split(_)
split(name) ==
    LET dots == {i \in 1..Len(name) : SubSeq(name, i, i) = "."}
    IN  IF dots = {} THEN <<name>>
        ELSE LET d == CHOOSE i \in dots : \A j \in dots : i <= j
             IN  <<SubSeq(name, 1, d - 1)>> \o split(SubSeq(name, d + 1, Len(name)))

\* parseCaptureName (463-472); the empty array of parts stands for the throw
parseCaptureName(name) ==
    LET parts == split(name)
    IN  IF Len(parts) = 0 THEN [threw |-> TRUE]
        ELSE IF Len(parts) = 1 THEN [threw |-> FALSE, type |-> parts[1], modifiers |-> <<>>]
        ELSE [threw |-> FALSE, type |-> parts[1], modifiers |-> Tail(parts)]

maxLineLength == 100000

\* a splitToken that returns its argument as it is
splitTokenWhole(token) == <<token>>

\* a splitToken that leaves out the last intermediate line
splitTokenOffByOne(token) ==
    LET start == token.range.start
        end == token.range.end
        lineDiff == end.line - start.line
    IN  IF start.line # end.line
        THEN <<[token EXCEPT !.range = Range(start, Position(start.line, maxLineLength))]>>
             \o [i \in 1..(lineDiff - 2) |->
                    [token EXCEPT !.range = Range(Position(start.line + i, 0),
                                                  Position(start.line + i, maxLineLength))]]
             \o <<[token EXCEPT !.range = Range(Position(end.line, 0), end)]>>
        ELSE <<token>>

\* splitToken (479-518). The RangeError branch is kept as in the source; a
\* vscode.Range never has its end before its start.
\* splitToken throws RangeError("Invalid token range") (486-489)
splitTokenThrows(token) ==
    token.range.start.line # token.range.end.line
        /\ token.range.end.line - token.range.start.line < 0

splitToken(token) ==
    LET start == token.range.start
        end == token.range.end
        lineDiff == end.line - start.line
    IN  IF start.line # end.line
        THEN IF lineDiff < 0 THEN <<>>
             ELSE <<[token EXCEPT !.range = Range(start, Position(start.line, maxLineLength))]>>
                  \o [i \in 1..(lineDiff - 1) |->
                         [token EXCEPT !.range = Range(Position(start.line + i, 0),
                                                       Position(start.line + i, maxLineLength))]]
                  \o <<[token EXCEPT !.range = Range(Position(end.line, 0), end)]>>
        ELSE <<token>>

(***************************************************************************)
(* SemanticTokensProvider.matchesToTokens (604-689).                       *)
(* A capture is [name, node] with node = [startPosition, endPosition,      *)
(* text]; a match is [captures] (plus setProperties for injection          *)
(* matches).  A Language is a record whose optional fields                 *)
(* (injectionQuery, semanticTokenTypeMappings) are absent when undefined;  *)
(* a mapping table is a function from the own property names of the       *)
(* object to the mappings.  A mapping is JNull for null, whose properties  *)
(* cannot be read, and else the record of the properties targetTokenType   *)
(* (a string) and targetTokenModifiers (a list of strings) that the value  *)
(* has: none for a value that is no object.                                *)
(***************************************************************************)
\* lang?.semanticTokenTypeMappings of lang = this.tsLangs[this.currentLanguage]
\* (615); the empty table stands for undefined, which no key belongs to, and
\* a value tsLangs inherits has no such field
activeMappings(langs, current) ==
    IF current \in DOMAIN langs /\ "semanticTokenTypeMappings" \in DOMAIN langs[current]
    THEN langs[current].semanticTokenTypeMappings
    ELSE <<>>

\* hasOwnProperty.call(mappings, key)
hasOwnProperty(mappings, key) == key \in DOMAIN mappings

\* an applyMapping that clears the modifiers when the mapping names none
applyMappingDefaultEmpty(mapping, parsed) ==
    LET modifiers == IF "targetTokenModifiers" \in DOMAIN mapping
                     THEN mapping.targetTokenModifiers ELSE <<>>
    IN  IF mapping = JNull THEN [threw |-> TRUE]
        ELSE IF "targetTokenType" \in DOMAIN mapping
        THEN [threw |-> FALSE, type |-> mapping.targetTokenType, modifiers |-> modifiers]
        ELSE [threw |-> FALSE, modifiers |-> modifiers]

\* one mapping applied to the parsed type and modifiers (619-624, 628-633):
\* reading mapping.targetTokenType of null throws a TypeError (621, 630);
\* the type is absent (undefined) when the mapping has no targetTokenType
applyMapping(mapping, parsed) ==
    LET modifiers == IF "targetTokenModifiers" \in DOMAIN mapping
                     THEN mapping.targetTokenModifiers ELSE parsed.modifiers
    IN  IF mapping = JNull THEN [threw |-> TRUE]
        ELSE IF "targetTokenType" \in DOMAIN mapping
        THEN [threw |-> FALSE, type |-> mapping.targetTokenType, modifiers |-> modifiers]
        ELSE [threw |-> FALSE, modifiers |-> modifiers]

\* a lookup that tries the parsed type before the full capture name
mapCaptureBaseFirst(originalCaptureName, parsed, mappings) ==
    IF hasOwnProperty(mappings, parsed.type)
    THEN applyMapping(mappings[parsed.type], parsed)
    ELSE IF hasOwnProperty(mappings, originalCaptureName)
    THEN applyMapping(mappings[originalCaptureName], parsed)
    ELSE [threw |-> FALSE, type |-> parsed.type, modifiers |-> parsed.modifiers]

\* the mapping lookup: full capture name first, then the parsed type (614-634)
mapCapture(originalCaptureName, parsed, mappings) ==
    IF hasOwnProperty(mappings, originalCaptureName)
    THEN applyMapping(mappings[originalCaptureName], parsed)
    ELSE IF hasOwnProperty(mappings, parsed.type)
    THEN applyMapping(mappings[parsed.type], parsed)
    ELSE [threw |-> FALSE, type |-> parsed.type, modifiers |-> parsed.modifiers]

\* a legend filter that keeps unknown modifiers
legendFilterKeepsModifiers(mapped, range) ==
    IF "type" \in DOMAIN mapped /\ includes(TOKEN_TYPES, mapped.type)
    THEN <<[range |-> range, type |-> mapped.type, modifiers |-> mapped.modifiers]>>
    ELSE <<>>

\* the legend filter (636-646): no token for an unknown type, unknown
\* modifiers removed
legendFilter(mapped, range) ==
    IF "type" \in DOMAIN mapped /\ includes(TOKEN_TYPES, mapped.type)
    THEN LET valid(modifier) == includes(TOKEN_MODIFIERS, modifier)
         IN  <<[range |-> range, type |-> mapped.type,
                modifiers |-> SelectSeq(mapped.modifiers, valid)]>>
    ELSE <<>>

\* the callback of the first flatMap (607-647): the tokens of one capture
captureToTokens(capture, mappings) ==
    LET parsed == parseCaptureName(capture.name)
        start == convertPosition(capture.node.startPosition)
        end == convertPosition(capture.node.endPosition)
    IN  legendFilter(mapCapture(capture.name, parsed, mappings), Range(start, end))

\* matches.flatMap(match => match.captures)
RECURSIVE allCaptures(_)
allCaptures(matches) ==
    IF matches = <<>> THEN <<>> ELSE Head(matches).captures \o allCaptures(Tail(matches))

\* unsplitTokens (605-647)
RECURSIVE capturesToTokens(_, _)
capturesToTokens(captures, mappings) ==
    IF captures = <<>> THEN <<>>
    ELSE captureToTokens(Head(captures), mappings) \o capturesToTokens(Tail(captures), mappings)

unsplitTokens(matches, langs, current) ==
    capturesToTokens(allCaptures(matches), activeMappings(langs, current))

\* contained.sort((a, b) => a.range.start.compareTo(b.range.start)) (657-659):
\* Array.prototype.sort is stable
RECURSIVE sortByStart(_)
sortByStart(tokens) ==
    IF Len(tokens) <= 1 THEN tokens
    ELSE LET sorted == sortByStart(SubSeq(tokens, 1, Len(tokens) - 1))
             x == tokens[Len(tokens)]
             k == Cardinality({i \in 1..Len(sorted) :
                                  compareTo(sorted[i].range.start, x.range.start) <= 0})
         IN  SubSeq(sorted, 1, k) \o <<x>> \o SubSeq(sorted, k + 1, Len(sorted))

\* the gap loop (661-684)
RECURSIVE gapTokens(_, _, _)
gapTokens(token, sortedContained, currentPos) ==
    IF sortedContained = <<>>
    THEN IF compareTo(currentPos, token.range.end) < 0
         THEN <<[token EXCEPT !.range = Range(currentPos, token.range.end)]>>
         ELSE <<>>
    ELSE LET containedToken == Head(sortedContained)
         IN  (IF compareTo(currentPos, containedToken.range.start) < 0
              THEN <<[token EXCEPT !.range = Range(currentPos, containedToken.range.start)]>>
              ELSE <<>>)
             \o gapTokens(token, Tail(sortedContained), containedToken.range.end)

\* the callback of the second flatMap (649-687)
resolveContained(token, unsplit) ==
    LET isContained(t) == ~isEqual(token.range, t.range) /\ contains(token.range, t.range)
        contained == SelectSeq(unsplit, isContained)
    IN  IF Len(contained) > 0
        THEN gapTokens(token, sortByStart(contained), token.range.start)
        ELSE <<token>>

RECURSIVE flatMapSplitToken(_)
flatMapSplitToken(tokens) ==
    IF tokens = <<>> THEN <<>> ELSE splitToken(Head(tokens)) \o flatMapSplitToken(Tail(tokens))

resolvedTokens(unsplit) ==
    flat([i \in 1..Len(unsplit) |-> resolveContained(unsplit[i], unsplit)])

matchesToTokens(matches, langs, current) ==
    flatMapSplitToken(resolvedTokens(unsplitTokens(matches, langs, current)))

\* the error matchesToTokens throws, Undefined when it returns: that of the
\* first capture for which parseCaptureName throws (466) or whose mapping is
\* null (621, 630), else that of splitToken (488)
matchesToTokensError(matches, langs, current) ==
    LET mappings == activeMappings(langs, current)
        nameThrows(capture) == parseCaptureName(capture.name).threw
        throws(capture) ==
            \/ nameThrows(capture)
            \/ mapCapture(capture.name, parseCaptureName(capture.name), mappings).threw
        thrown == SelectSeq(allCaptures(matches), throws)
        resolved == resolvedTokens(unsplitTokens(matches, langs, current))
    IN  IF thrown # <<>>
        THEN Some(IF nameThrows(thrown[1]) THEN "Capture name is empty."
                  ELSE "Cannot read properties of null (reading 'targetTokenType')")
        ELSE IF \E i \in 1..Len(resolved) : splitTokenThrows(resolved[i])
        THEN Some("Invalid token range")
        ELSE Undefined

\* a clipping that keeps only the part before the injection
clipTokenBeforeOnly(token, range) ==
    IF intersection(token.range, range) # {} /\ isBefore(token.range.start, range.start)
    THEN <<[token EXCEPT !.range = Range(token.range.start, range.start)]>>
    ELSE IF intersection(token.range, range) # {} THEN <<>> ELSE <<token>>

(***************************************************************************)
(* SemanticTokensProvider.parseToTokens (562-602), the part that merges    *)
(* the injections into the tokens of the parse.  An injection is           *)
(* [range, tokens].                                                        *)
(***************************************************************************)
\* the callback of flatMap (577-592): a token cut at the injection range
clipToken(token, range) ==
    IF intersection(token.range, range) # {}
    THEN (IF isBefore(token.range.start, range.start)
          THEN <<[token EXCEPT !.range = Range(token.range.start, range.start)]>>
          ELSE <<>>)
         \o (IF isAfter(token.range.end, range.end)
             THEN <<[token EXCEPT !.range = Range(range.end, token.range.end)]>>
             ELSE <<>>)
    ELSE <<token>>

\* one injection merged into the tokens (572-592)
mergeInjection(tokens, injection) ==
    LET range == injection.range
        outside(token) == ~contains(range, token.range)
        kept == SelectSeq(tokens, outside)
    IN  flat([i \in 1..Len(kept) |-> clipToken(kept[i], range)])

\* a merge that leaves the parent tokens as they are
mergeInjectionsNotAssigned(tokens, injections) == tokens

\* a loop that merges every injection, with or without tokens
RECURSIVE mergeInjectionsAlways(_, _)
mergeInjectionsAlways(tokens, injections) ==
    IF injections = <<>> THEN tokens
    ELSE mergeInjectionsAlways(mergeInjection(tokens, Head(injections)), Tail(injections))

\* the loop over the injections (570-594)
RECURSIVE mergeInjections(_, _)
mergeInjections(tokens, injections) ==
    IF injections = <<>> THEN tokens
    ELSE mergeInjections(
            IF Len(Head(injections).tokens) > 0
            THEN mergeInjection(tokens, Head(injections))
            ELSE tokens,
            Tail(injections))

\* the tokens of the injections, last injection first
injectionTokensReversed(injections) ==
    flat([i \in 1..Len(injections) |-> injections[Len(injections) + 1 - i].tokens])

\* injections.map(injection => injection.tokens).flat() (595)
injectionTokens(injections) == flat([i \in 1..Len(injections) |-> injections[i].tokens])

\* tokens.map(token => ({...token, range: addPosition(...)})) (597-600)
shiftTokens(tokens, startPosition) ==
    [i \in 1..Len(tokens) |->
        [tokens[i] EXCEPT !.range = addPosition(tokens[i].range, convertPosition(startPosition))]]

\* parseToTokens from the merge on (567-601): tokens are the tokens of the
\* parse, injections the awaited result of getInjections
mergeAndShift(tokens, hasInjectionQuery, injections, startPosition) ==
    shiftTokens(
        IF hasInjectionQuery
        THEN mergeInjections(tokens, injections) \o injectionTokens(injections)
        ELSE tokens,
        startPosition)

(***************************************************************************)
(* SemanticTokensProvider.getInjection (694-743).  An optional value is    *)
(* a sequence: <<>> for undefined (or null), <<v>> for the value v.        *)
(***************************************************************************)
\* Array.prototype.find, given the elements that pass its test in order
first(found) == IF found = <<>> THEN Undefined ELSE Some(found[1])

\* a || b on optional strings: a when a is a non-empty string, else b
orElse(a, b) == IF a # Undefined /\ a[1] # "" THEN a ELSE b

\* a getInjection that takes the first config when the language has none
injectionTargetAnyConfig(match, cfgs) ==
    LET setProperties == IF "setProperties" \in DOMAIN match THEN match.setProperties ELSE <<>>
        injectionLanguage == IF "injection.language" \in DOMAIN setProperties
                             THEN Some(setProperties["injection.language"]) ELSE Undefined
        hardCoded == IF injectionLanguage # Undefined /\ injectionLanguage[1].type = "string"
                     THEN Some(injectionLanguage[1].string) ELSE Undefined
        isLanguage(c) == c.name = "injection.language"
        languageCapture == first(SelectSeq(match.captures, isLanguage))
        dynamic == IF languageCapture = Undefined THEN Undefined
                   ELSE Some(languageCapture[1].node.text)
        configured == [i \in 1..Len(cfgs) |-> cfgs[i].lang]
        isNamed(c) == includes(configured, c.name)
        namedCapture == first(SelectSeq(match.captures, isNamed))
        name == IF namedCapture = Undefined THEN Undefined ELSE Some(namedCapture[1].name)
        lang == orElse(hardCoded, orElse(dynamic, name))
        isContent(c) == c.name = "injection.content"
        hasName(c) == c.name = name[1]
        capture == IF hardCoded # Undefined
                   THEN (IF Len(match.captures) = 0 THEN Undefined ELSE Some(match.captures[1]))
                   ELSE IF dynamic # Undefined THEN first(SelectSeq(match.captures, isContent))
                   ELSE IF name # Undefined THEN first(SelectSeq(match.captures, hasName))
                   ELSE Undefined
        isLang(c) == c.lang = lang[1]
        config == IF lang = Undefined THEN Undefined
                  ELSE IF SelectSeq(cfgs, isLang) = <<>> THEN Some(cfgs[1])
                  ELSE first(SelectSeq(cfgs, isLang))
    IN  IF lang = Undefined \/ capture = Undefined \/ config = Undefined THEN Undefined
        ELSE Some([lang |-> lang[1], capture |-> capture[1], config |-> config[1]])

\* the language, the content capture and the config of an injection match
\* (694-729); Undefined where getInjection returns null
injectionTarget(match, cfgs) ==
    LET setProperties == IF "setProperties" \in DOMAIN match THEN match.setProperties ELSE <<>>
        injectionLanguage == IF "injection.language" \in DOMAIN setProperties
                             THEN Some(setProperties["injection.language"]) ELSE Undefined
        hardCoded == IF injectionLanguage # Undefined /\ injectionLanguage[1].type = "string"
                     THEN Some(injectionLanguage[1].string) ELSE Undefined
        isLanguage(c) == c.name = "injection.language"
        languageCapture == first(SelectSeq(match.captures, isLanguage))
        dynamic == IF languageCapture = Undefined THEN Undefined
                   ELSE Some(languageCapture[1].node.text)
        configured == [i \in 1..Len(cfgs) |-> cfgs[i].lang]
        isNamed(c) == includes(configured, c.name)
        namedCapture == first(SelectSeq(match.captures, isNamed))
        name == IF namedCapture = Undefined THEN Undefined ELSE Some(namedCapture[1].name)
        lang == orElse(hardCoded, orElse(dynamic, name))
        isContent(c) == c.name = "injection.content"
        hasName(c) == c.name = name[1]
        capture == IF hardCoded # Undefined
                   THEN (IF Len(match.captures) = 0 THEN Undefined ELSE Some(match.captures[1]))
                   ELSE IF dynamic # Undefined THEN first(SelectSeq(match.captures, isContent))
                   ELSE IF name # Undefined THEN first(SelectSeq(match.captures, hasName))
                   ELSE Undefined
        isLang(c) == c.lang = lang[1]
        config == IF lang = Undefined THEN Undefined ELSE first(SelectSeq(cfgs, isLang))
    IN  IF lang = Undefined \/ capture = Undefined \/ config = Undefined THEN Undefined
        ELSE Some([lang |-> lang[1], capture |-> capture[1], config |-> config[1]])

(***************************************************************************)
(* initLanguage (433-446) and the parsers.  A Language holds the handles   *)
(* of its parser and queries, named after the language; world.highlights   *)
(* and world.injections give the matches of a query on the tree of a text. *)
(***************************************************************************)
\* the Language initLanguage returns (445)
Language(lang, hasInjections, mappings) ==
    LET base == [parser |-> lang, highlightQuery |-> lang]
        withInj == IF hasInjections
                   THEN [f \in DOMAIN base \cup {"injectionQuery"} |->
                            IF f = "injectionQuery" THEN lang ELSE base[f]]
                   ELSE base
    IN  IF mappings = <<>> THEN withInj
        ELSE [f \in DOMAIN withInj \cup {"semanticTokenTypeMappings"} |->
                 IF f = "semanticTokenTypeMappings" THEN mappings ELSE withInj[f]]

initLanguage(config) ==
    Language(config.lang, "injections" \in DOMAIN config,
             IF "semanticTokenTypeMappings" \in DOMAIN config
             THEN config.semanticTokenTypeMappings ELSE <<>>)

\* query.matches(parser.parse(text).rootNode)
queryMatches(table, handle, text) ==
    IF <<handle, text>> \in DOMAIN table THEN table[<<handle, text>>] ELSE <<>>

(***************************************************************************)
(* One call of provideDocumentSemanticTokens (539-556) is a tree of        *)
(* frames: the frame at path <<>> is the parse of the document, the frame  *)
(* at Append(p, i) the call of getInjection for the i-th injection match   *)
(* of the parse at p.  A frame is                                          *)
(*   "loading": suspended in `await initLanguage(config)` (550, 732);      *)
(*   "parsed":  parseToTokens ran up to `await this.getInjections` (568),  *)
(*              tokens = matchesToTokens(matches);                         *)
(*   "null":    getInjection returned null;                                *)
(*   "failed":  the call the frame stands for rejected with error.         *)
(* Everything between two awaits of initLanguage runs without a write to   *)
(* tsLangs or currentLanguage in between.                                  *)
(***************************************************************************)
\* a cache test that never finds the language
isCachedNever(lang, langs) == FALSE

\* the property names every object literal inherits from Object.prototype
ObjectPrototype ==
    {"constructor", "hasOwnProperty", "isPrototypeOf", "propertyIsEnumerable",
     "toLocaleString", "toString", "valueOf", "__proto__", "__defineGetter__",
     "__defineSetter__", "__lookupGetter__", "__lookupSetter__"}

\* `lang in this.tsLangs` (545, 731): tsLangs is an object literal (522), so
\* the test also finds the names it inherits
isCached(lang, langs) == lang \in DOMAIN langs \/ lang \in ObjectPrototype

\* this.tsLangs[lang] (552, 734) for a name the test of isCached finds: an
\* inherited value has none of the fields of a Language
getLanguage(langs, lang) == IF lang \in DOMAIN langs THEN langs[lang] ELSE <<>>


RECURSIVE enterParse(_, _, _, _, _, _, _, _)
RECURSIVE startInjection(_, _, _, _, _)

\* parseToTokens up to the await of getInjections (562-568), with the calls
\* of getInjection that getInjections starts (751)
enterParse(path, language, text, startPosition, range, langs, current, env) ==
    \* the TypeError of parser.parse (564) when the language has no parser
    IF "parser" \notin DOMAIN language
    THEN path :> [kind |-> "failed",
                  error |-> "Cannot read properties of undefined (reading 'parse')"]
    ELSE
    LET matches == queryMatches(env.world.highlights, language.highlightQuery, text)
        thrown == matchesToTokensError(matches, langs, current)
        hasInjectionQuery == "injectionQuery" \in DOMAIN language
        injectionMatches == IF hasInjectionQuery
                            THEN queryMatches(env.world.injections, language.injectionQuery, text)
                            ELSE <<>>
        self == [kind |-> "parsed",
                 tokens |-> matchesToTokens(matches, langs, current),
                 hasInjectionQuery |-> hasInjectionQuery,
                 matches |-> Len(injectionMatches),
                 startPosition |-> startPosition,
                 range |-> range]
        RECURSIVE started(_)
        started(i) ==
            IF i > Len(injectionMatches) THEN <<>>
            ELSE startInjection(Append(path, i), injectionMatches[i], langs, current, env)
                 @@ started(i + 1)
    \* matchesToTokens throws (565) before getInjections is called (567)
    IN  IF thrown # Undefined THEN path :> [kind |-> "failed", error |-> thrown[1]]
        ELSE (path :> self) @@ started(1)

\* getInjection up to its await (694-732), or through parseToTokens when
\* the language is cached (734-740)
startInjection(path, match, langs, current, env) ==
    LET target == injectionTarget(match, env.configs)
    IN  IF target = Undefined THEN path :> [kind |-> "null"]
        ELSE LET node == target[1].capture.node
                 range == Range(convertPosition(node.startPosition),
                                convertPosition(node.endPosition))
             IN  IF ~isCached(target[1].lang, langs)
                 THEN path :> [kind |-> "loading", lang |-> target[1].lang,
                               config |-> target[1].config, text |-> node.text,
                               startPosition |-> node.startPosition, range |-> range]
                 ELSE enterParse(path, getLanguage(langs, target[1].lang), node.text,
                                 node.startPosition, range, langs, current, env)

\* the value parseToTokens returns for the parse at path once no frame
\* below it is loading (570-601); the injections are those of the matches
\* in their order, without the nulls (752)
RECURSIVE assemble(_, _)
assemble(frames, path) ==
    LET f == frames[path]
        RECURSIVE injections(_)
        injections(i) ==
            IF i > f.matches THEN <<>>
            ELSE (IF frames[Append(path, i)].kind = "null" THEN <<>>
                  ELSE <<[range |-> frames[Append(path, i)].range,
                          tokens |-> assemble(frames, Append(path, i))]>>)
                 \o injections(i + 1)
    IN  mergeAndShift(f.tokens, f.hasInjectionQuery, injections(1), f.startPosition)

(***************************************************************************)
(* Outcome of a call: still running, returned a value, or threw.           *)
(***************************************************************************)
Pending == [status |-> "pending"]
Returned(v) == [status |-> "returned", value |-> v]
Threw(e) == [status |-> "threw", error |-> e]

(***************************************************************************)
(* new vscode.SemanticTokensBuilder(LEGEND), push and build (553-555).     *)
(* push(range, type, modifiers) records line, start character, length,     *)
(* index of the type in the legend and the bit set of the modifiers; it    *)
(* throws for a range that spans lines.  build returns SemanticTokens      *)
(* whose data holds five numbers per token, line and start character       *)
(* relative to the token before (the character only on the same line),     *)
(* the tokens sorted by line and start character when the pushes were not  *)
(* in that order.                                                          *)
(***************************************************************************)
\* the index of x in the legend list arr, counted from 0
indexOf(arr, x) == (CHOOSE i \in 1..Len(arr) : arr[i] = x) - 1

\* nTokenModifiers of push: the bits 1 << index of the modifiers or-ed
\* together; a modifier named twice sets its bit once
encodeModifiers(modifiers) ==
    LET RECURSIVE orBits(_)
        orBits(S) ==
            IF S = {} THEN 0
            ELSE LET i == CHOOSE i \in S : TRUE IN 2^i + orBits(S \ {i})
    IN  orBits({indexOf(TOKEN_MODIFIERS, modifiers[k]) : k \in 1..Len(modifiers)})

\* the five numbers push records for a token, positions not yet relative
pushed(token) ==
    <<token.range.start.line, token.range.start.character,
      token.range.end.character - token.range.start.character,
      indexOf(TOKEN_TYPES, token.type), encodeModifiers(token.modifiers)>>

\* the sort of build by line, then start character; Array.prototype.sort is
\* stable
RECURSIVE sortEntries(_)
sortEntries(entries) ==
    IF Len(entries) <= 1 THEN entries
    ELSE LET sorted == sortEntries(SubSeq(entries, 1, Len(entries) - 1))
             x == entries[Len(entries)]
             startsAfter(a, b) == a[1] > b[1] \/ (a[1] = b[1] /\ a[2] > b[2])
             k == Cardinality({i \in 1..Len(sorted) : ~startsAfter(sorted[i], x)})
         IN  SubSeq(sorted, 1, k) \o <<x>> \o SubSeq(sorted, k + 1, Len(sorted))

\* line and start character of every entry made relative to the entry before
RECURSIVE deltaEncode(_, _, _)
deltaEncode(entries, prevLine, prevChar) ==
    IF entries = <<>> THEN <<>>
    ELSE LET e == Head(entries)
             pushLine == e[1] - prevLine
             pushChar == IF pushLine = 0 THEN e[2] - prevChar ELSE e[2]
         IN  <<pushLine, pushChar, e[3], e[4], e[5]>> \o deltaEncode(Tail(entries), e[1], e[2])

\* tokens.forEach(push) and builder.build() (554-555): the outcome of the
\* call, the data of the SemanticTokens it returns or the error of push for
\* a range that spans lines.  The data is sorted only when a push came
\* before the position of the push before it
build(tokens) ==
    IF \E k \in 1..Len(tokens) : tokens[k].range.start.line # tokens[k].range.end.line
    THEN Threw("range cannot span multiple lines")
    ELSE LET entries == [k \in 1..Len(tokens) |-> pushed(tokens[k])]
             startsAfter(a, b) == a[1] > b[1] \/ (a[1] = b[1] /\ a[2] > b[2])
             isSorted == \A k \in 2..Len(entries) : ~startsAfter(entries[k - 1], entries[k])
         IN  Returned(deltaEncode(IF isSorted THEN entries ELSE sortEntries(entries), 0, 0))

\* the tokens the editor reads from the data of SemanticTokens with the
\* legend, their modifiers in the order of the legend
decode(data) ==
    LET modifiersOf(n) ==
            LET isSet(m) == (n \div 2^indexOf(TOKEN_MODIFIERS, m)) % 2 = 1
            IN  SelectSeq(TOKEN_MODIFIERS, isSet)
        RECURSIVE from(_, _, _)
        from(rest, prevLine, prevChar) ==
            IF rest = <<>> THEN <<>>
            ELSE LET line == prevLine + rest[1]
                     char == IF rest[1] = 0 THEN prevChar + rest[2] ELSE rest[2]
                 IN  <<[range |-> Range(Position(line, char), Position(line, char + rest[3])),
                        type |-> TOKEN_TYPES[rest[4] + 1],
                        modifiers |-> modifiersOf(rest[5])]>>
                     \o from(SubSeq(rest, 6, Len(rest)), line, char)
    IN  from(data, 0, 0)

(***************************************************************************)
(* Input spaces.                                                           *)
(***************************************************************************)
Point(r, c) == [row |-> r, column |-> c]
Node(s, e, text) == [startPosition |-> s, endPosition |-> e, text |-> text]
Capture(name, node) == [name |-> name, node |-> node]

\* the vocabularies as sets
TokenTypeSet == {TOKEN_TYPES[i] : i \in 1..Len(TOKEN_TYPES)}
TokenModifierSet == {TOKEN_MODIFIERS[i] : i \in 1..Len(TOKEN_MODIFIERS)}

\* a function call studied on its own: no document is being highlighted
\* a provider that was constructed by itself: no settings were read, nothing
\* is registered, no provider was disposed
Detached == [settings |-> <<>>, workspaceFolders |-> <<>>, registered |-> FALSE,
             selector |-> <<>>, command |-> FALSE, subscriptions |-> <<>>,
             disposed |-> <<>>]

NoRequests == configs = <<>> /\ world = <<>> /\ requests = <<>> /\ vscode = Detached

Positions == {Position(l, c) : l \in 0..MaxLine, c \in 0..MaxCol}
Ranges == {Range(a, b) : a \in Positions, b \in Positions}

(***************************************************************************)
(* SpecSplit: splitToken applied to every token of the input space.        *)
(***************************************************************************)
SplitTokens ==
    {[range |-> r, type |-> t, modifiers |-> m] :
        r \in Ranges, t \in {"string", "comment"}, m \in {<<>>, <<"readonly", "static">>}}

InitSplit ==
    /\ NoRequests
    /\ tsLangs = <<>>
    /\ currentLanguage = ""
    /\ pc = "splitToken"
    /\ args \in {[token |-> t] : t \in SplitTokens}
    /\ result = Pending

SplitToken ==
    /\ pc = "splitToken"
    /\ result' = IF splitTokenThrows(args.token) THEN Threw("RangeError")
                  ELSE Returned(splitToken(args.token))
    /\ pc' = "done"
    /\ UNCHANGED <<configs, tsLangs, currentLanguage, world, requests, vscode, args>>

NextSplit == SplitToken

SpecSplit == InitSplit /\ [][NextSplit]_vars

\* C10: splitToken of a token from (s,c1) to (e,c2) with s < e returns e-s+1
\* tokens in line order: (s,c1)-(s,100000), (i,0)-(i,100000) for each line i
\* strictly between s and e, and (e,0)-(e,c2), all with the type and modifiers
\* of the token; a token with s = e is returned unchanged.
C10_SplitShape ==
    pc = "done" =>
        LET out == result.value
            t == args.token
            s == t.range.start.line
            e == t.range.end.line
        IN  IF s < e
            THEN /\ result.status = "returned"
                 /\ Len(out) = e - s + 1
                 /\ out[1].range = [start |-> t.range.start, end |-> Position(s, 100000)]
                 /\ \A k \in 2..(e - s) :
                        out[k].range = [start |-> Position(s + k - 1, 0),
                                           end |-> Position(s + k - 1, 100000)]
                 /\ out[e - s + 1].range = [start |-> Position(e, 0), end |-> t.range.end]
                 /\ \A k \in 1..Len(out) :
                        out[k].type = t.type /\ out[k].modifiers = t.modifiers
            ELSE result = Returned(<<t>>)

C10_Witness ==
    /\ pc = "done"
    /\ args.token.range.end.line - args.token.range.start.line >= 2
    /\ result.status = "returned"
    /\ Len(result.value) >= 3
    /\ args.token.modifiers # <<>>

(***************************************************************************)
(* SpecClassify: matchesToTokens on one capture, for every capture name    *)
(* and every mapping table of the input space.                             *)
(***************************************************************************)
\* Array.prototype.join(".")
RECURSIVE Join(_)
Join(segs) ==
    IF Len(segs) = 0 THEN ""
    ELSE IF Len(segs) = 1 THEN segs[1]
    ELSE segs[1] \o "." \o Join(Tail(segs))

SegLists ==
    { <<"keyword">>, <<"variable">>, <<"variable", "readonly">>,
      <<"variable", "parameter">>, <<"variable", "bogus", "static", "readonly">>,
      <<"constant">>, <<"constant", "readonly">>, <<"module", "builtin">>,
      <<"injection", "content">>, <<"">>, <<"variable", "">> }

CaptureNames == {Join(segs) : segs \in SegLists}

MappingKeys ==
    {"variable", "variable.parameter", "variable.readonly", "constant",
     "constant.readonly", "module"}

\* the mappings of a table; the last is a value without targetTokenType
MappingTargets ==
    { [targetTokenType |-> "property"],
      [targetTokenType |-> "bogus"],
      [targetTokenType |-> "variable", targetTokenModifiers |-> <<>>],
      [targetTokenType |-> "parameter",
       targetTokenModifiers |-> <<"declaration", "bogus", "readonly">>],
      <<>> }

MappingTables ==
    UNION {[keys -> MappingTargets] :
              keys \in {k \in SUBSET MappingKeys : Cardinality(k) <= MaxMappings}}

ClassifyNodes ==
    { Node(Point(0, 1), Point(0, 2), "x"), Node(Point(0, 1), Point(1, 1), "xy") }

InitClassify ==
    /\ NoRequests
    /\ \E mappings \in MappingTables : tsLangs = [l \in {"a"} |-> Language("a", FALSE, mappings)]
    /\ currentLanguage = "a"
    /\ pc = "matchesToTokens"
    /\ args \in {[matches |-> <<[captures |-> <<Capture(name, node)>>]>>] :
                    name \in CaptureNames, node \in ClassifyNodes}
    /\ result = Pending

MatchesToTokens ==
    /\ pc = "matchesToTokens"
    /\ result' = IF matchesToTokensError(args.matches, tsLangs, currentLanguage) # Undefined
                 THEN Threw(matchesToTokensError(args.matches, tsLangs, currentLanguage)[1])
                 ELSE Returned(matchesToTokens(args.matches, tsLangs, currentLanguage))
    /\ pc' = "done"
    /\ UNCHANGED <<configs, tsLangs, currentLanguage, world, requests, vscode, args>>

NextClassify == MatchesToTokens

SpecClassify == InitClassify /\ [][NextClassify]_vars

\* what the claims about classification speak of: the one capture, the
\* segments of its name, the table of the active language
TheCapture == args.matches[1].captures[1]
TheSegments == CHOOSE segs \in SegLists : Join(segs) = TheCapture.name
TheTable ==
    IF "semanticTokenTypeMappings" \in DOMAIN tsLangs[currentLanguage]
    THEN tsLangs[currentLanguage].semanticTokenTypeMappings ELSE <<>>
FullEntry == TheCapture.name \in DOMAIN TheTable
BaseEntry == TheSegments[1] \in DOMAIN TheTable
TheEntry == IF FullEntry THEN TheTable[TheCapture.name] ELSE TheTable[TheSegments[1]]
InLegend(modifier) == modifier \in TokenModifierSet

\* the targetTokenType of an entry, Undefined when it has none
TargetType(entry) ==
    IF "targetTokenType" \in DOMAIN entry THEN Some(entry.targetTokenType) ELSE Undefined

\* the call returned tokens, all of type ty, when ty is a type of the legend,
\* and returned no token when it is not or is undefined
TokensHaveType(ty) ==
    /\ result.status = "returned"
    /\ IF ty # Undefined /\ ty[1] \in TokenTypeSet
       THEN /\ result.value # <<>>
            /\ \A i \in 1..Len(result.value) : result.value[i].type = ty[1]
       ELSE result.value = <<>>

TokensHaveModifiers(mods) ==
    /\ result.status = "returned"
    /\ \A i \in 1..Len(result.value) : result.value[i].modifiers = mods

\* C7: with an entry for the full capture name the token takes that entry's
\* type; the base-type entry is used only without a full-name entry; the
\* derived type and modifiers are kept only when neither entry exists.
C7_MappingPrecedence ==
    pc = "done" =>
        IF FullEntry THEN TokensHaveType(TargetType(TheTable[TheCapture.name]))
        ELSE IF BaseEntry THEN TokensHaveType(TargetType(TheTable[TheSegments[1]]))
        ELSE /\ TokensHaveType(Some(TheSegments[1]))
             /\ TokensHaveModifiers(SelectSeq(Tail(TheSegments), InLegend))

C7_Witness ==
    /\ pc = "done"
    /\ FullEntry /\ BaseEntry
    /\ TheCapture.name # TheSegments[1]
    /\ TargetType(TheTable[TheCapture.name]) # Undefined
    /\ TargetType(TheTable[TheSegments[1]]) # Undefined
    /\ TargetType(TheTable[TheCapture.name]) # TargetType(TheTable[TheSegments[1]])
    /\ TargetType(TheTable[TheSegments[1]])[1] \in TokenTypeSet
    /\ result.status = "returned" /\ result.value # <<>>

\* C8 as claimed: when an entry applies, the token has the entry's type and
\* the entry's modifiers, and an empty modifier list when the entry omits
\* targetTokenModifiers.
C8_MappingWholesale ==
    (pc = "done" /\ (FullEntry \/ BaseEntry)) =>
        /\ TokensHaveType(TargetType(TheEntry))
        /\ TokensHaveModifiers(
              IF "targetTokenModifiers" \in DOMAIN TheEntry
              THEN SelectSeq(TheEntry.targetTokenModifiers, InLegend)
              ELSE <<>>)

\* C8 amended: when an entry applies, the token has the entry's type; its
\* modifiers are the entry's targetTokenModifiers when the entry has them,
\* and the modifier segments of the capture's own name when it omits them
\* (in both cases without the modifiers outside the legend).
C8_MappingKeepsParsedModifiers ==
    (pc = "done" /\ (FullEntry \/ BaseEntry)) =>
        /\ TokensHaveType(TargetType(TheEntry))
        /\ TokensHaveModifiers(
              IF "targetTokenModifiers" \in DOMAIN TheEntry
              THEN SelectSeq(TheEntry.targetTokenModifiers, InLegend)
              ELSE SelectSeq(Tail(TheSegments), InLegend))

C8_Witness ==
    /\ pc = "done"
    /\ TheCapture.name = "variable.readonly"
    /\ BaseEntry /\ ~FullEntry
    /\ "targetTokenModifiers" \notin DOMAIN TheEntry
    /\ result.status = "returned" /\ result.value # <<>>
    /\ result.value[1].type = "property"
    /\ result.value[1].modifiers = <<"readonly">>

\* C9: every token has a type of TOKEN_TYPES and modifiers of
\* TOKEN_MODIFIERS; a capture whose type after mapping is outside
\* TOKEN_TYPES gives no token and no error; modifiers outside
\* TOKEN_MODIFIERS are removed and the others keep their order.
TypeAfterMapping ==
    IF FullEntry \/ BaseEntry THEN TargetType(TheEntry) ELSE Some(TheSegments[1])
ModifiersAfterMapping ==
    IF (FullEntry \/ BaseEntry) /\ "targetTokenModifiers" \in DOMAIN TheEntry
    THEN TheEntry.targetTokenModifiers ELSE Tail(TheSegments)

\* s without the elements outside the legend, in the order of s
RECURSIVE LegendModifiers(_)
LegendModifiers(s) ==
    IF s = <<>> THEN <<>>
    ELSE IF Head(s) \in TokenModifierSet THEN <<Head(s)>> \o LegendModifiers(Tail(s))
    ELSE LegendModifiers(Tail(s))

C9_LegendOnly ==
    pc = "done" =>
        /\ result.status = "returned"
        /\ \A i \in 1..Len(result.value) :
              /\ result.value[i].type \in TokenTypeSet
              /\ \A j \in 1..Len(result.value[i].modifiers) :
                    result.value[i].modifiers[j] \in TokenModifierSet
              /\ result.value[i].modifiers = LegendModifiers(ModifiersAfterMapping)
        /\ (TypeAfterMapping = Undefined \/ TypeAfterMapping[1] \notin TokenTypeSet)
              = (result.value = <<>>)

C9_Witness ==
    /\ pc = "done"
    /\ result.status = "returned" /\ result.value # <<>>
    /\ \E j \in 1..Len(ModifiersAfterMapping) : ModifiersAfterMapping[j] \notin TokenModifierSet
    /\ Len(result.value[1].modifiers) >= 2

\* C22: matchesToTokens on a capture whose name is empty throws: it returns
\* no list, neither one with a token for the capture nor one without.
C22_EmptyNameThrows ==
    (pc = "done" /\ TheCapture.name = "") => result.status = "threw"

(***************************************************************************)
(* SpecRange: matchesToTokens on one capture whose node is handed over     *)
(* with any two points as its start and end, the end before the start      *)
(* included.                                                               *)
(***************************************************************************)
RangePoints == {Point(l, c) : l \in 0..MaxLine, c \in 0..MaxCol}

InitRange ==
    /\ NoRequests
    /\ tsLangs = [l \in {"a"} |-> Language("a", FALSE, <<>>)]
    /\ currentLanguage = "a"
    /\ pc = "matchesToTokens"
    /\ args \in {[matches |-> <<[captures |-> <<Capture("string", Node(s, e, "x"))>>]>>] :
                    s \in RangePoints, e \in RangePoints}
    /\ result = Pending

SpecRange == InitRange /\ [][NextClassify]_vars

\* C23: matchesToTokens on a capture whose end line is before its start
\* line throws, so that the call that runs it fails; it returns no tokens
\* for the capture.
C23_ReversedCaptureThrows ==
    (pc = "done" /\ TheCapture.node.endPosition.row < TheCapture.node.startPosition.row)
        => result.status = "threw"

(***************************************************************************)
(* SpecTokens: matchesToTokens on the captures of one grammar pass.  The   *)
(* captured nodes are nodes of one syntax tree: two of them are nested,    *)
(* equal or disjoint.  The i-th capture has the i-th name of PassNames, so *)
(* that a token's type tells which capture it comes from.                  *)
(***************************************************************************)
PassNames == <<"string", "keyword", "number">>

TokPositions == {Position(l, c) : l \in 0..MaxTokLine, c \in 0..MaxTokCol}
TokRanges == {Range(a, b) : a \in TokPositions, b \in TokPositions}

\* two nodes of one tree
TreeLike(r, s) ==
    \/ contains(r, s) \/ contains(s, r)
    \/ ~isBefore(s.start, r.end) \/ ~isBefore(r.start, s.end)

NodeOf(r) ==
    Node(Point(r.start.line, r.start.character), Point(r.end.line, r.end.character), "")

PassRanges ==
    {rs \in UNION {[1..n -> TokRanges] : n \in 1..MaxCaptures} :
        \A i, j \in 1..Len(rs) : TreeLike(rs[i], rs[j])}

InitTokens ==
    /\ NoRequests
    /\ tsLangs = [l \in {"a"} |-> Language("a", FALSE, <<>>)]
    /\ currentLanguage = "a"
    /\ pc = "matchesToTokens"
    /\ args \in {[matches |-> [i \in 1..Len(rs) |->
                                 [captures |-> <<Capture(PassNames[i], NodeOf(rs[i]))>>]]] :
                    rs \in PassRanges}
    /\ result = Pending

PassTokens ==
    /\ pc = "matchesToTokens"
    /\ result' = IF matchesToTokensError(args.matches, tsLangs, currentLanguage) # Undefined
                 THEN Threw(matchesToTokensError(args.matches, tsLangs, currentLanguage)[1])
                 ELSE Returned(matchesToTokens(args.matches, tsLangs, currentLanguage))
    /\ pc' = "done"
    /\ UNCHANGED <<configs, tsLangs, currentLanguage, world, requests, vscode, args>>

NextTokens == PassTokens

SpecTokens == InitTokens /\ [][NextTokens]_vars

\* two ranges share a non-empty range
Overlap(r, s) ==
    LET st == IF isBefore(r.start, s.start) THEN s.start ELSE r.start
        en == IF isBefore(r.end, s.end) THEN r.end ELSE s.end
    IN  isBefore(st, en)

NoOverlap(tokens) ==
    \A i, j \in 1..Len(tokens) : i # j => ~Overlap(tokens[i].range, tokens[j].range)

\* the range of the i-th capture of the pass
CaptureRange(i) ==
    LET n == args.matches[i].captures[1].node
    IN  [start |-> Position(n.startPosition.row, n.startPosition.column),
         end |-> Position(n.endPosition.row, n.endPosition.column)]

\* C2: no two tokens returned by matchesToTokens for one grammar pass overlap.
C2_PassNoOverlap ==
    pc = "done" => (result.status = "returned" /\ NoOverlap(result.value))

\* the unit cells of the grid: [(l,c), (l,c+1)]
Cells == {[start |-> Position(l, c), end |-> Position(l, c + 1)] :
             l \in 0..MaxTokLine, c \in 0..(MaxTokCol - 1)}
Inside(r, cell) == ~isBefore(cell.start, r.start) /\ ~isBefore(r.end, cell.end)

\* the containment law for the captures i (outer, range R) and j (inner,
\* range R'): no returned token has the range R, and the tokens with the
\* outer capture's type cover R minus R': none of them reaches into R', and
\* each cell of R outside every capture contained in R is covered by one
ContainmentLaw(i, j) ==
    LET R == CaptureRange(i)
        Rp == CaptureRange(j)
        outer == {k \in 1..Len(result.value) : result.value[k].type = PassNames[i]}
    IN  /\ \A k \in 1..Len(result.value) : result.value[k].range # R
        /\ \A k \in outer : \A cell \in Cells :
              Inside(result.value[k].range, cell) => (Inside(R, cell) /\ ~Inside(Rp, cell))
        /\ \A cell \in Cells :
              (/\ Inside(R, cell)
               /\ \A m \in 1..Len(args.matches) :
                     (contains(R, CaptureRange(m)) /\ CaptureRange(m) # R)
                         => ~Inside(CaptureRange(m), cell))
              => \E k \in outer : Inside(result.value[k].range, cell)

ZeroWidth(r) == r.start = r.end

\* C5: when the range R of one capture contains the different range R' of
\* another, no returned token has the range R and the tokens with the
\* outer capture's type cover R minus R'; for every R', also one of zero
\* width at the start or the end of R.
C5_ContainmentLawAnyWidth ==
    pc = "done" =>
        /\ result.status = "returned"
        /\ \A i, j \in 1..Len(args.matches) :
              (contains(CaptureRange(i), CaptureRange(j)) /\ CaptureRange(i) # CaptureRange(j))
                  => ContainmentLaw(i, j)

\* C5, for the passes all of whose captures have a non-zero width (the
\* claim says more: it also covers an R' of zero width).
C5_ContainmentLaw ==
    (pc = "done" /\ \A m \in 1..Len(args.matches) : ~ZeroWidth(CaptureRange(m))) =>
        /\ result.status = "returned"
        /\ \A i, j \in 1..Len(args.matches) :
              (contains(CaptureRange(i), CaptureRange(j)) /\ CaptureRange(i) # CaptureRange(j))
                  => ContainmentLaw(i, j)

\* the captures of the pass whose range lies in the range of capture i and
\* differs from it
ContainedIn(i) ==
    {j \in 1..Len(args.matches) :
        contains(CaptureRange(i), CaptureRange(j)) /\ CaptureRange(j) # CaptureRange(i)}

\* the tokens returned for capture i
TokensOf(i) == {k \in 1..Len(result.value) : result.value[k].type = PassNames[i]}

\* C24: for every capture that contains other captures, the tokens that
\* replace it do not overlap one another, none of them overlaps a contained
\* capture, and together they cover every cell of its range outside the
\* contained captures; also when the contained captures are nested in one
\* another.  Stated for the passes all of whose captures have a non-zero
\* width.
C24_GapTokensExact ==
    (pc = "done" /\ \A m \in 1..Len(args.matches) : ~ZeroWidth(CaptureRange(m))) =>
        /\ result.status = "returned"
        /\ \A i \in 1..Len(args.matches) :
              ContainedIn(i) # {} =>
                  /\ \A k, m \in TokensOf(i) :
                        k # m => ~Overlap(result.value[k].range, result.value[m].range)
                  /\ \A k \in TokensOf(i) : \A j \in ContainedIn(i) :
                        ~Overlap(result.value[k].range, CaptureRange(j))
                  /\ \A cell \in Cells :
                        (Inside(CaptureRange(i), cell)
                            /\ \A j \in ContainedIn(i) : ~Inside(CaptureRange(j), cell))
                        => \E k \in TokensOf(i) : Inside(result.value[k].range, cell)

(***************************************************************************)
(* SpecMerge: the merge loop of parseToTokens on the tokens of one parent  *)
(* capture and one or two injections.  Two lines are enough for ranges     *)
(* and tokens that span lines, two injections for one to act on what the   *)
(* other left.                                                             *)
(***************************************************************************)
MergeLines == 0..1
InjectionCounts == 1..2

MergePositions == {Position(l, c) : l \in MergeLines, c \in 0..MaxMergeCol}
MergeRanges == {Range(a, b) : a \in MergePositions, b \in MergePositions}

\* the tokens matchesToTokens returns for one capture "string" of range r
ParentTokens(r) ==
    matchesToTokens(<<[captures |-> <<Capture("string", NodeOf(r))>>]>>, <<>>, "")

\* an injection of range r, with one token or none
InjectionOf(r, empty) ==
    [range |-> r,
     tokens |-> IF empty THEN <<>>
                ELSE <<[range |-> Range(r.start, r.start), type |-> "number", modifiers |-> <<>>]>>]

MergeInjectionLists ==
    UNION {[1..n -> {InjectionOf(r, e) : r \in MergeRanges, e \in BOOLEAN}] :
              n \in InjectionCounts}

InitMerge ==
    /\ NoRequests
    /\ tsLangs = <<>>
    /\ currentLanguage = ""
    /\ pc = "mergeInjections"
    /\ args \in {[tokens |-> ParentTokens(r), injections |-> injs] :
                    r \in MergeRanges, injs \in MergeInjectionLists}
    /\ result = Pending

MergeInjections ==
    /\ pc = "mergeInjections"
    /\ result' = Returned(mergeInjections(args.tokens, args.injections))
    /\ pc' = "done"
    /\ UNCHANGED <<configs, tsLangs, currentLanguage, world, requests, vscode, args>>

NextMerge == MergeInjections

SpecMerge == InitMerge /\ [][NextMerge]_vars

\* C6: after the merge of all injections of one parse, no surviving parent
\* token has a range fully inside the range of an injection with a
\* non-empty token list.
C6_NoParentInsideInjection ==
    pc = "done" =>
        \A i \in 1..Len(args.injections) : \A k \in 1..Len(result.value) :
            args.injections[i].tokens # <<>> =>
                ~(/\ ~isBefore(result.value[k].range.start, args.injections[i].range.start)
                  /\ ~isAfter(result.value[k].range.end, args.injections[i].range.end))

\* two overlapping injections with tokens, the first spanning two lines,
\* have cut a parent token that lay inside their union, and a part survives
C6_Witness ==
    /\ pc = "done"
    /\ Len(args.injections) = 2
    /\ args.injections[1].tokens # <<>> /\ args.injections[2].tokens # <<>>
    /\ args.injections[1].range.start.line # args.injections[1].range.end.line
    /\ Overlap(args.injections[1].range, args.injections[2].range)
    /\ \E k \in 1..Len(args.tokens) :
          /\ contains(args.injections[2].range, args.tokens[k].range)
          /\ ~contains(args.injections[1].range, args.tokens[k].range)
          /\ Overlap(args.injections[1].range, args.tokens[k].range)
    /\ result.value # <<>>

\* the injections of the pass that have tokens
NonEmptyInjections == {i \in 1..Len(args.injections) : args.injections[i].tokens # <<>>}

\* the returned tokens on the line of the k-th parent token: the parent
\* tokens of a pass are the pieces of one capture, one on each line
FragmentsOf(k) ==
    LET onLine(token) == token.range.start.line = args.tokens[k].range.start.line
    IN  SelectSeq(result.value, onLine)

Intersects(r, s) == ~isBefore(r.end, s.start) /\ ~isBefore(s.end, r.start)

\* C11: for an injection with tokens and a parent token that intersects its
\* range without lying inside it, the token is replaced by its part before
\* the injection start (when it starts before it) and its part after the
\* injection end (when it ends after it), each with the type and modifiers
\* of the parent; a parent token that does not intersect the range is kept.
C11_ClipFragments ==
    (pc = "done" /\ Cardinality(NonEmptyInjections) = 1) =>
        LET G == args.injections[CHOOSE i \in NonEmptyInjections : TRUE].range
        IN  \A k \in 1..Len(args.tokens) :
                LET T == args.tokens[k]
                    inside == ~isBefore(T.range.start, G.start) /\ ~isAfter(T.range.end, G.end)
                    before == IF isBefore(T.range.start, G.start)
                              THEN <<[range |-> [start |-> T.range.start, end |-> G.start],
                                      type |-> T.type, modifiers |-> T.modifiers]>>
                              ELSE <<>>
                    after  == IF isAfter(T.range.end, G.end)
                              THEN <<[range |-> [start |-> G.end, end |-> T.range.end],
                                      type |-> T.type, modifiers |-> T.modifiers]>>
                              ELSE <<>>
                IN  \/ inside
                    \/ ~Intersects(T.range, G) /\ FragmentsOf(k) = <<T>>
                    \/ Intersects(T.range, G) /\ FragmentsOf(k) = before \o after

\* an injection with tokens has cut the parent token that reaches beyond
\* both of its ends into two fragments, and the parent token on the other
\* line is returned as it was
C11_Witness ==
    /\ pc = "done"
    /\ Cardinality(NonEmptyInjections) = 1
    /\ LET G == args.injections[CHOOSE i \in NonEmptyInjections : TRUE].range
       IN  /\ \E k \in 1..Len(args.tokens) :
                 /\ isBefore(args.tokens[k].range.start, G.start)
                 /\ isAfter(args.tokens[k].range.end, G.end)
                 /\ Len(FragmentsOf(k)) = 2
           /\ \E k \in 1..Len(args.tokens) :
                 /\ ~Intersects(args.tokens[k].range, G)
                 /\ FragmentsOf(k) = <<args.tokens[k]>>

\* C12: injections whose token list is empty leave the parent tokens as
\* they are: none is dropped or clipped, also one inside an injection range.
C12_EmptyInjectionKeepsParent ==
    (pc = "done" /\ NonEmptyInjections = {}) => result.value = args.tokens

\* the pass had injections without tokens, one of them around a parent token
\* and one across the end of a parent token
C12_Witness ==
    /\ pc = "done"
    /\ NonEmptyInjections = {}
    /\ result.status = "returned"
    /\ \E i \in 1..Len(args.injections) : \E k \in 1..Len(args.tokens) :
          /\ contains(args.injections[i].range, args.tokens[k].range)
          /\ ~ZeroWidth(args.tokens[k].range)
    /\ \E i \in 1..Len(args.injections) : \E k \in 1..Len(args.tokens) :
          /\ Overlap(args.injections[i].range, args.tokens[k].range)
          /\ ~contains(args.injections[i].range, args.tokens[k].range)

(***************************************************************************)
(* The provider: calls of provideDocumentSemanticTokens on one             *)
(* SemanticTokensProvider, interleaved at the awaits of initLanguage.      *)
(* requests[r] is the r-th call VS Code makes: its document, its state     *)
(* ("idle" before the call, "running" while its promise is pending,        *)
(* "done"), its frames and its outcome.  A call runs without interruption  *)
(* from its start, or from the resolution of a load, to the next await;    *)
(* the continuations of the awaits of 740, 752, 568 and 552 read and       *)
(* write nothing but locals of the call and are one step, Return.          *)
(***************************************************************************)
TextDocument(languageId, text) == [languageId |-> languageId, text |-> text]

\* provider is the number of the provider instance that serves the call (0
\* before the call), loaded and failed the languages whose initLanguage
\* resolved and rejected in it, resolved the paths of the frames whose
\* initLanguage resolved, in the order in which they did, error the first
\* rejection among the calls it awaits, tokens the value of tokens (552)
Request(document) ==
    [document |-> document, state |-> "idle", provider |-> 0, frames |-> <<>>,
     loaded |-> <<>>, failed |-> <<>>, resolved |-> <<>>, error |-> Undefined,
     tokens |-> <<>>, outcome |-> Pending]

\* the provider instances in the order of their construction: the disposed
\* ones, then the one whose fields are configs, tsLangs and currentLanguage
Generation == Len(vscode.disposed) + 1

Instance(g) ==
    IF g = Generation
    THEN [configs |-> configs, tsLangs |-> tsLangs, currentLanguage |-> currentLanguage]
    ELSE vscode.disposed[g]

isLoading(frames) == \E path \in DOMAIN frames : frames[path].kind = "loading"

hasFailed(frames) == \E path \in DOMAIN frames : frames[path].kind = "failed"

\* the call is suspended in its awaits (550, 552, 568, 732, 740, 752); the
\* first rejection among the calls it awaits is the one Promise.all passes
\* on (752).  A call that has rejected keeps the frames that are loading:
\* the calls of getInjection it started run on
settle(request, frames) ==
    IF request.state = "done"
    THEN [request EXCEPT !.frames = IF isLoading(frames) THEN frames ELSE <<>>]
    ELSE [request EXCEPT
             !.state = "running",
             !.frames = frames,
             !.error = IF @ = Undefined /\ hasFailed(frames)
                       THEN Some(frames[CHOOSE path \in DOMAIN frames :
                                           frames[path].kind = "failed"].error)
                       ELSE @]

\* a call that answers a document of a language without config with no tokens
noConfigReturnsEmpty(call) == [call EXCEPT !.state = "done", !.outcome = Returned(<<>>)]

\* the call throws when the language of the document has no config (546-549)
noConfig(call) ==
    [call EXCEPT !.state = "done", !.outcome = Threw("No config for lang provided.")]

\* provideDocumentSemanticTokens up to its first await: of initLanguage
\* (543-550), or of parseToTokens (552) when the language is found in tsLangs
Call(r) ==
    /\ requests[r].state = "idle"
    /\ LET document == requests[r].document
           lang == document.languageId
           isLang(c) == c.lang = lang
           config == first(SelectSeq(configs, isLang))
           env == [world |-> world, configs |-> configs]
           origin == Range(Position(0, 0), Position(0, 0))
       IN  /\ currentLanguage' = lang
           /\ requests' =
                [requests EXCEPT ![r] =
                    LET call == [@ EXCEPT !.provider = Generation]
                    IN  IF ~isCached(lang, tsLangs)
                        THEN IF config = Undefined
                             THEN noConfig(call)
                             ELSE settle(call, <<>> :> [kind |-> "loading", lang |-> lang,
                                                        config |-> config[1],
                                                        text |-> document.text,
                                                        startPosition |-> Point(0, 0),
                                                        range |-> origin])
                        ELSE settle(call, enterParse(<<>>, getLanguage(tsLangs, lang),
                                                     document.text, Point(0, 0), origin,
                                                     tsLangs, lang, env))]
    /\ UNCHANGED <<configs, tsLangs, world, vscode, pc, args, result>>

\* the calls are made in the order of requests
Provide(r) ==
    /\ \A q \in 1..(r - 1) : requests[q].state # "idle"
    /\ Call(r)

\* an awaited initLanguage resolves: the language is stored in the provider
\* that serves the call and the call runs on to its next await (550-552,
\* 732-740)
LoadDone(r, path) ==
    /\ path \in DOMAIN requests[r].frames
    /\ requests[r].frames[path].kind = "loading"
    /\ LET f == requests[r].frames[path]
           g == requests[r].provider
           langs == (f.lang :> initLanguage(f.config)) @@ Instance(g).tsLangs
           env == [world |-> world, configs |-> Instance(g).configs]
           frames == enterParse(path, langs[f.lang], f.text, f.startPosition, f.range,
                                langs, Instance(g).currentLanguage, env) @@ requests[r].frames
       IN  /\ IF g = Generation
              THEN tsLangs' = langs /\ UNCHANGED vscode
              ELSE vscode' = [vscode EXCEPT !.disposed[g].tsLangs = langs] /\ UNCHANGED tsLangs
           /\ requests' = [requests EXCEPT
                              ![r] = settle([@ EXCEPT !.loaded = Append(@, f.lang),
                                                      !.resolved = Append(@, path)], frames)]
    /\ UNCHANGED <<configs, currentLanguage, world, pc, args, result>>

\* a failed load that stores what it had built
failedLoadCachePartial(langs, lang, config) == (lang :> [parser |-> lang]) @@ langs

\* the cache after initLanguage rejected: the assignment of 550 and 731 is
\* not executed
failedLoadCache(langs, lang, config) == langs

\* an awaited initLanguage rejects (a parser or query file that cannot be
\* read or compiled, 435-443): nothing is stored and the call rejects
LoadFail(r, path) ==
    /\ path \in DOMAIN requests[r].frames
    /\ requests[r].frames[path].kind = "loading"
    /\ LET f == requests[r].frames[path]
           g == requests[r].provider
           langs == failedLoadCache(Instance(g).tsLangs, f.lang, f.config)
           frames == (path :> [kind |-> "failed", error |-> "initLanguage"])
                     @@ requests[r].frames
       IN  /\ IF g = Generation
              THEN tsLangs' = langs /\ UNCHANGED vscode
              ELSE vscode' = [vscode EXCEPT !.disposed[g].tsLangs = langs] /\ UNCHANGED tsLangs
           /\ requests' = [requests EXCEPT
                              ![r] = IF path = <<>>
                                     THEN [@ EXCEPT !.failed = Append(@, f.lang),
                                                    !.state = "done",
                                                    !.frames = <<>>,
                                                    !.error = Some("initLanguage"),
                                                    !.outcome = Threw("initLanguage")]
                                     ELSE settle([@ EXCEPT !.failed = Append(@, f.lang)],
                                                 frames)]
    /\ UNCHANGED <<configs, currentLanguage, world, pc, args, result>>

\* the awaits of the call resume up to `await this.parseToTokens` (552):
\* the call rejects with the first rejection, or pushes the tokens of the
\* document to the builder and returns what it builds (553-555)
Return(r) ==
    /\ requests[r].state = "running"
    /\ \/ requests[r].error # Undefined
       \/ \A path \in DOMAIN requests[r].frames :
             requests[r].frames[path].kind \in {"parsed", "null"}
    /\ requests' =
         [requests EXCEPT ![r] =
             LET frames == requests[r].frames
             IN  IF requests[r].error # Undefined
                 THEN [@ EXCEPT !.state = "done",
                                !.frames = IF isLoading(frames) THEN frames ELSE <<>>,
                                !.outcome = Threw(requests[r].error[1])]
                 ELSE [@ EXCEPT !.state = "done",
                                !.frames = <<>>,
                                !.tokens = assemble(frames, <<>>),
                                !.outcome = build(assemble(frames, <<>>))]]
    /\ UNCHANGED <<configs, tsLangs, currentLanguage, world, vscode, pc, args, result>>

Paths(rs) == UNION {DOMAIN rs[r].frames : r \in DOMAIN rs}

Next ==
    \/ \E r \in DOMAIN requests : Provide(r)
    \/ \E r \in DOMAIN requests : \E path \in Paths(requests) : LoadDone(r, path)
    \/ \E r \in DOMAIN requests : Return(r)

(***************************************************************************)
(* Spec: up to MaxRequests calls on a provider configured for two          *)
(* languages.  "a" has a mapping table and injects "b"; "b" has neither.   *)
(***************************************************************************)
MaxRequests == 3

ConfigA ==
    [lang |-> "a", injectionOnly |-> FALSE, injections |-> "a/injections.scm",
     semanticTokenTypeMappings |->
        ("constant" :> [targetTokenType |-> "variable",
                        targetTokenModifiers |-> <<"readonly">>])]

ConfigB == [lang |-> "b", injectionOnly |-> FALSE]

\* text "x": a constant, and a string holding an interpolation holding a
\* variable; on the next line embedded "b" code
\* text "y": a constant, and a node captured by two patterns
ExampleWorld ==
    [highlights |->
        (<<"a", "x">> :>
            <<[captures |-> <<Capture("constant", Node(Point(0, 0), Point(0, 3), "ABC"))>>],
              [captures |-> <<Capture("string", Node(Point(0, 4), Point(0, 12), "'a${b.c}'"))>>],
              [captures |-> <<Capture("operator", Node(Point(0, 6), Point(0, 11), "${b.c}"))>>],
              [captures |-> <<Capture("variable", Node(Point(0, 8), Point(0, 10), "bc"))>>]>>)
        @@ (<<"b", "y">> :>
            <<[captures |-> <<Capture("constant", Node(Point(0, 0), Point(0, 2), "PI"))>>],
              [captures |-> <<Capture("variable", Node(Point(0, 3), Point(0, 4), "f"))>>],
              [captures |-> <<Capture("function", Node(Point(0, 3), Point(0, 4), "f"))>>]>>)
        @@ (<<"b", "z">> :>
            <<[captures |-> <<Capture("constant", Node(Point(0, 0), Point(0, 2), "PI"))>>]>>),
     injections |->
        (<<"a", "x">> :>
            <<[captures |-> <<Capture("b", Node(Point(1, 0), Point(1, 2), "z"))>>]>>)]

\* "c" and "toString" have no config; tsLangs inherits a property toString
Documents ==
    {TextDocument("a", "x"), TextDocument("b", "y"), TextDocument("c", "x"),
     TextDocument("toString", "x")}

Init ==
    /\ configs = <<ConfigA, ConfigB>>
    /\ vscode = Detached
    /\ world = ExampleWorld
    /\ tsLangs = <<>>
    /\ currentLanguage = ""
    /\ \E n \in 1..MaxRequests :
          requests \in [1..n -> {Request(d) : d \in Documents}]
    /\ pc = "idle"
    /\ args = <<>>
    /\ result = Pending

Spec == Init /\ [][Next]_vars

HasToken(tokens, type, line) ==
    \E i \in 1..Len(tokens) : tokens[i].type = type /\ tokens[i].range.start.line = line

ConfiguredLanguages == {configs[i].lang : i \in 1..Len(configs)}

ReturnedRequests == {r \in DOMAIN requests : requests[r].outcome.status = "returned"}

\* the config of a configured language: the first of that language, as
\* configs.find gives it
ConfigOf(lang) ==
    configs[CHOOSE i \in 1..Len(configs) :
                configs[i].lang = lang /\ \A j \in 1..(i - 1) : configs[j].lang # lang]

\* the position in the enclosing text of the point pos of a text that starts
\* at origin in it: the first line of the text continues the line of origin
TruePosition(origin, pos) ==
    IF pos.row = 0
    THEN Position(origin.line, origin.character + pos.column)
    ELSE Position(origin.line + pos.row, pos.column)

\* the captures of the highlight queries on the text and on the contents
\* injected in it, at any depth, with their ranges in the document: origin is
\* the position in the document where the text starts
RECURSIVE TrueCaptures(_, _, _, _)
TrueCaptures(lang, text, origin, depth) ==
    LET captures == allCaptures(queryMatches(world.highlights, lang, text))
        own == {[type |-> captures[i].name, lang |-> lang, depth |-> depth,
                 range |-> Range(TruePosition(origin, captures[i].node.startPosition),
                                 TruePosition(origin, captures[i].node.endPosition))] :
                   i \in 1..Len(captures)}
        matches == IF "injections" \in DOMAIN ConfigOf(lang)
                   THEN queryMatches(world.injections, lang, text) ELSE <<>>
        targets == {injectionTarget(matches[i], configs) : i \in 1..Len(matches)} \ {Undefined}
    IN  own \cup UNION {TrueCaptures(t[1].lang, t[1].capture.node.text,
                                     TruePosition(origin, t[1].capture.node.startPosition),
                                     depth + 1) : t \in targets}

DocumentCaptures(document) ==
    TrueCaptures(document.languageId, document.text, Position(0, 0), 0)

\* C1: the tokens a call returns do not overlap one another
C1_NoOverlapReturned ==
    \A r \in ReturnedRequests : NoOverlap(decode(requests[r].outcome.value))

\* C4: two calls for the same document text and language, on the same
\* configuration, return the same tokens
C4_Deterministic ==
    \A r, q \in ReturnedRequests :
        requests[r].document = requests[q].document
            => requests[r].outcome.value = requests[q].outcome.value

\* the tokens of a call for the document when the injection matches of the
\* document are `matches`, every configured language being loaded
TokensWith(document, matches) ==
    LET langs == [l \in ConfiguredLanguages |->
                    initLanguage(CHOOSE c \in {configs[i] : i \in 1..Len(configs)} : c.lang = l)]
        key == <<document.languageId, document.text>>
        without == [world EXCEPT !.injections = (key :> matches) @@ @]
    IN  assemble(enterParse(<<>>, langs[document.languageId], document.text, Point(0, 0),
                            Range(Position(0, 0), Position(0, 0)), langs, document.languageId,
                            [world |-> without, configs |-> configs]), <<>>)

\* the frames that are loading after a step and were not before it
StartedLoads ==
    {<<r, path>> \in (DOMAIN requests) \X Paths(requests') :
        /\ path \in DOMAIN requests'[r].frames
        /\ requests'[r].frames[path].kind = "loading"
        /\ ~(path \in DOMAIN requests[r].frames /\ requests[r].frames[path].kind = "loading")}

\* C16: once the binding of a language is in tsLangs it stays there, and no
\* resolution of that language that starts afterwards, by a call or by an
\* injection match, executes initLanguage.
C16_CachedNeverReloaded ==
    [][/\ DOMAIN tsLangs \subseteq DOMAIN tsLangs'
       /\ \A started \in StartedLoads :
             requests'[started[1]].frames[started[2]].lang \notin DOMAIN tsLangs']_vars

\* a call for the document with the injection returned parent and injected
\* tokens and awaited no load: both languages came from the cache
C16_Witness ==
    \E r \in ReturnedRequests :
        /\ requests[r].loaded = <<>>
        /\ requests[r].document = TextDocument("a", "x")
        /\ {"a", "b"} \subseteq DOMAIN tsLangs
        /\ HasToken(decode(requests[r].outcome.value), "string", 0)
        /\ HasToken(decode(requests[r].outcome.value), "variable", 1)

\* the calls of initLanguage for the language lang that are in flight
LoadsInFlight(lang) ==
    {<<r, path>> \in (DOMAIN requests) \X Paths(requests) :
        /\ path \in DOMAIN requests[r].frames
        /\ requests[r].frames[path].kind = "loading"
        /\ requests[r].frames[path].lang = lang}

\* C15: for one language identifier at most one construction of its binding
\* is in flight at any time, whatever the number of calls and injection
\* matches that resolve it concurrently.
C15_SingleLoadInFlight ==
    \A lang \in ConfiguredLanguages : Cardinality(LoadsInFlight(lang)) <= 1

\* the calls before r are for languages without config, the calls after r
\* have not been made
OnlyUnconfiguredBefore(r) ==
    /\ \A q \in 1..(r - 1) : requests[q].document.languageId \notin ConfiguredLanguages
    /\ \A q \in (r + 1)..Len(requests) : requests[q].state = "idle"

\* C20: a call for a document whose language has no config entry fails
\* with an error (at once, or once its await of parseToTokens resumes when
\* tsLangs inherits a property of that name), returns no tokens, starts no
\* load and leaves the cache as it was; a later call for a configured
\* language returns what it returns without it.
C20_UnconfiguredTopLevel ==
    /\ [][\A r \in DOMAIN requests :
             (/\ requests[r].state = "idle" /\ requests'[r].state # "idle"
              /\ requests[r].document.languageId \notin ConfiguredLanguages)
                => /\ requests'[r].state = "done" \/ requests'[r].error # Undefined
                   /\ ~isLoading(requests'[r].frames)
                   /\ tsLangs' = tsLangs]_vars
    /\ [](\A r \in DOMAIN requests :
             (/\ requests[r].state = "done"
              /\ requests[r].document.languageId \notin ConfiguredLanguages)
                => /\ requests[r].outcome.status = "threw"
                   /\ requests[r].frames = <<>>
                   /\ requests[r].loaded = <<>>)
    /\ [](\A r \in ReturnedRequests :
             (requests[r].document.languageId \in ConfiguredLanguages
                 /\ OnlyUnconfiguredBefore(r))
                => requests[r].outcome
                      = build(TokensWith(requests[r].document,
                                         queryMatches(world.injections,
                                                      requests[r].document.languageId,
                                                      requests[r].document.text))))

\* a call for a language without config threw, and the next call, for the
\* document with the mapping and the injection, loaded its languages and
\* returned its tokens
C20_Witness ==
    /\ Len(requests) >= 2
    /\ requests[1].document.languageId \notin ConfiguredLanguages
    /\ requests[1].outcome.status = "threw"
    /\ requests[2].document = TextDocument("a", "x")
    /\ requests[2].outcome.status = "returned"
    /\ OnlyUnconfiguredBefore(2)
    /\ HasToken(decode(requests[2].outcome.value), "variable", 0)
    /\ HasToken(decode(requests[2].outcome.value), "variable", 1)

\* the type of the token of a capture of the language lang under that
\* language's own mapping table, none when the language has no table
OwnType(name, lang) ==
    mapCapture(name, parseCaptureName(name),
               IF "semanticTokenTypeMappings" \in DOMAIN ConfigOf(lang)
               THEN ConfigOf(lang).semanticTokenTypeMappings ELSE <<>>).type

\* the call for r was made and ran to its end with no other call made
\* before or during it
RanAlone(r) == \A q \in DOMAIN requests : q # r => requests[q].state = "idle"

\* C26: every token a call returns comes from a capture classified with the
\* mapping table of the language whose highlight query matched it: it lies
\* in the document range of a capture whose type under the own table of
\* its language, the injected language for an injected content, is the
\* token's type.  Stated for a call that runs alone.
C26_OwnMapping ==
    \A r \in ReturnedRequests :
        RanAlone(r) =>
            \A i \in 1..Len(decode(requests[r].outcome.value)) :
                LET t == decode(requests[r].outcome.value)[i]
                IN  \E c \in DocumentCaptures(requests[r].document) :
                        /\ OwnType(c.type, c.lang) = t.type
                        /\ ~isBefore(t.range.start, c.range.start)
                        /\ ~isAfter(t.range.end, c.range.end)

\* the tokens of the call for the document when each parse is classified
\* with the table of the language of the document and nothing else
\* (TokensWith): what the call returns when it runs alone
AloneTokens(document) ==
    TokensWith(document, queryMatches(world.injections, document.languageId, document.text))

\* C27: a call for a document returns the tokens it returns when it runs
\* alone, whatever calls for documents of other languages start while it is
\* suspended in a load, those that throw included.
C27_Isolation ==
    \A r \in ReturnedRequests :
        requests[r].outcome = build(AloneTokens(requests[r].document))

(***************************************************************************)
(* SpecLoad: the calls of Spec on a provider whose loads may fail.         *)
(***************************************************************************)
NextLoad ==
    \/ Next
    \/ \E r \in DOMAIN requests : \E path \in Paths(requests) : LoadFail(r, path)

SpecLoad == Init /\ [][NextLoad]_vars

\* every entry of the cache is the whole binding of its language, stored by
\* a load that resolved
WholeBindings ==
    \A lang \in DOMAIN tsLangs :
        /\ lang \in ConfiguredLanguages
        /\ tsLangs[lang] = initLanguage(ConfigOf(lang))
        /\ {"parser", "highlightQuery"} \subseteq DOMAIN tsLangs[lang]
        /\ \E r \in DOMAIN requests : includes(requests[r].loaded, lang)

\* C17: a load is all or nothing for the cache: every entry is a whole
\* binding at every point; when initLanguage fails the call fails, nothing
\* is stored for the language, and a resolution of a configured language
\* that is not in the cache executes the load (again).
C17_LoadAllOrNothing ==
    /\ []WholeBindings
    /\ [][\A r \in DOMAIN requests :
             /\ Len(requests'[r].failed) > Len(requests[r].failed)
                   => /\ tsLangs' = tsLangs
                      /\ requests'[r].error # Undefined
             /\ (requests'[r].state = "done" /\ requests'[r].error # Undefined)
                   => requests'[r].outcome = Threw(requests'[r].error[1])
             /\ (/\ requests[r].state = "idle" /\ requests'[r].state # "idle"
                 /\ requests[r].document.languageId \in ConfiguredLanguages
                 /\ requests[r].document.languageId \notin DOMAIN tsLangs)
                   => (<<>> \in DOMAIN requests'[r].frames
                          /\ requests'[r].frames[<<>>].kind = "loading")]_vars

\* the load of a language failed in one call, which threw, and a later call
\* loaded the language and returned
C17_Witness ==
    \E r, q \in DOMAIN requests :
        /\ r < q
        /\ requests[r].failed # <<>>
        /\ requests[r].outcome.status = "threw"
        /\ includes(requests[q].loaded, requests[r].failed[1])
        /\ requests[q].outcome.status = "returned"
        /\ requests[r].failed[1] \in DOMAIN tsLangs

(***************************************************************************)
(* SpecParse: one call for a document of language "a" whose parse holds    *)
(* up to MaxInjections injections of "b", which in turn may inject "a".    *)
(* The matches of the queries are drawn; the text of a content node        *)
(* names its extent ("y1": part of one line, "y2": the end of a line and   *)
(* the start of the next, "z": part of one line).                          *)
(***************************************************************************)
MaxInjections == 2

ParseConfigs ==
    <<[lang |-> "a", injectionOnly |-> FALSE, injections |-> "a/injections.scm"],
      [lang |-> "b", injectionOnly |-> FALSE, injections |-> "b/injections.scm"]>>

Match(captures) == [captures |-> captures]

\* highlight matches of "a" on the document: three lines
DocumentHighlights ==
    { <<Match(<<Capture("string", Node(Point(0, 0), Point(2, 1), "s"))>>)>>,
      <<Match(<<Capture("keyword", Node(Point(0, 0), Point(0, 2), "k"))>>),
        Match(<<Capture("string", Node(Point(0, 2), Point(1, 1), "s"))>>)>>,
      <<Match(<<Capture("string", Node(Point(0, 1), Point(1, 1), "s"))>>),
        Match(<<Capture("keyword", Node(Point(0, 2), Point(0, 3), "k"))>>)>> }

\* the ways an injection match names its language (694-723): by a capture
\* of its name and by a directive, on the content "y1"; by the text of a
\* capture, on the content "y2"; a match that names none; matches that
\* name the language "q", which has no config; and a match whose directive
\* has no value (null), with a capture named after a language
InjectionMatches ==
    { Match(<<Capture("b", Node(Point(0, 1), Point(0, 3), "y1"))>>),
      [captures |-> <<Capture("injection.content", Node(Point(0, 1), Point(0, 3), "y1"))>>,
       setProperties |-> ("injection.language" :> JString("b"))],
      Match(<<Capture("injection.language", Node(Point(0, 0), Point(0, 1), "b")),
              Capture("injection.content", Node(Point(0, 2), Point(1, 1), "y2"))>>),
      Match(<<Capture("injection.content", Node(Point(0, 2), Point(1, 1), "y2"))>>),
      [captures |-> <<Capture("injection.content", Node(Point(0, 1), Point(0, 3), "y1"))>>,
       setProperties |-> ("injection.language" :> JString("q"))],
      Match(<<Capture("injection.language", Node(Point(0, 0), Point(0, 1), "q")),
              Capture("injection.content", Node(Point(0, 2), Point(1, 1), "y2"))>>),
      [captures |-> <<Capture("other", Node(Point(0, 0), Point(0, 1), "o")),
                      Capture("b", Node(Point(0, 1), Point(0, 3), "y1"))>>,
       setProperties |-> ("injection.language" :> JNull)] }

InjectionMatchLists ==
    UNION {[1..n -> InjectionMatches] : n \in 0..MaxInjections}

\* highlight matches of "b" on the content "y1" and on the content "y2"
Y1Highlights ==
    { <<>>, <<Match(<<Capture("type", Node(Point(0, 0), Point(0, 1), "t"))>>)>> }

Y2Highlights ==
    { <<>>,
      <<Match(<<Capture("comment", Node(Point(0, 0), Point(1, 1), "c"))>>)>>,
      <<Match(<<Capture("type", Node(Point(1, 0), Point(1, 1), "t"))>>)>> }

\* injection matches of "b" on the content "y2"
Y2Injections ==
    { <<>>, <<Match(<<Capture("a", Node(Point(1, 0), Point(1, 1), "z"))>>)>> }

\* injection matches of "b" on the content "y1"
Y1Injections ==
    { <<>>, <<Match(<<Capture("a", Node(Point(0, 1), Point(0, 2), "z"))>>)>> }

ZHighlights ==
    { <<Match(<<Capture("number", Node(Point(0, 0), Point(0, 1), "n"))>>)>> }

ParseWorlds ==
    { [highlights |-> (<<"a", "x">> :> x) @@ (<<"b", "y1">> :> y1)
                      @@ (<<"b", "y2">> :> y2) @@ (<<"a", "z">> :> z),
       injections |-> (<<"a", "x">> :> xi) @@ (<<"b", "y1">> :> y1i)
                      @@ (<<"b", "y2">> :> y2i)] :
        x \in DocumentHighlights, xi \in InjectionMatchLists, y1 \in Y1Highlights,
        y1i \in Y1Injections, y2 \in Y2Highlights, y2i \in Y2Injections,
        z \in ZHighlights }

InitParse ==
    /\ configs = ParseConfigs
    /\ vscode = Detached
    /\ world \in ParseWorlds
    /\ tsLangs = <<>>
    /\ currentLanguage = ""
    /\ requests = <<Request(TextDocument("a", "x"))>>
    /\ pc = "idle"
    /\ args = <<>>
    /\ result = Pending

SpecParse == InitParse /\ [][Next]_vars

SingleLine(tokens) ==
    \A i \in 1..Len(tokens) : tokens[i].range.start.line = tokens[i].range.end.line

\* C3: every token of the merged output of a call, the list it pushes to
\* the builder, starts and ends on the same line, whether it is a parent
\* token, a clipped parent fragment or a shifted token of an injection of any
\* depth
C3_SingleLine ==
    \A r \in DOMAIN requests : SingleLine(requests[r].tokens)

\* a call returned pieces of a multi-line parent capture on two lines, a
\* piece of a multi-line capture of an injection, and a token of an
\* injection inside an injection
C3_Witness ==
    \E r \in ReturnedRequests :
        LET tokens == requests[r].tokens
        IN  /\ HasToken(tokens, "string", 0)
            /\ HasToken(tokens, "string", 1)
            /\ HasToken(tokens, "comment", 0)
            /\ HasToken(tokens, "number", 1)

\* the language an injection match names: the directive's (none when the
\* directive has no string as its value), else the text of the capture
\* "injection.language", else the first capture name that is a configured
\* language
NamedLanguage(match) ==
    LET isLanguage(c) == c.name = "injection.language"
        isConfigured(c) == \E i \in 1..Len(configs) : configs[i].lang = c.name
    IN  IF "setProperties" \in DOMAIN match /\ "injection.language" \in DOMAIN match.setProperties
        THEN (IF match.setProperties["injection.language"].type = "string"
              THEN <<match.setProperties["injection.language"].string>> ELSE <<>>)
        ELSE IF SelectSeq(match.captures, isLanguage) # <<>>
        THEN <<SelectSeq(match.captures, isLanguage)[1].node.text>>
        ELSE IF SelectSeq(match.captures, isConfigured) # <<>>
        THEN <<SelectSeq(match.captures, isConfigured)[1].name>>
        ELSE <<>>

\* the match names a language that has no configuration entry
Unconfigured(match) ==
    /\ NamedLanguage(match) # <<>>
    /\ NamedLanguage(match)[1] # ""
    /\ \A i \in 1..Len(configs) : configs[i].lang # NamedLanguage(match)[1]

\* C13: an injection match that names a language without a configuration
\* entry gives no injection and no error: its getInjection is null, no load
\* of that language is started, no binding of it is cached, and the call
\* returns the tokens it returns for the parse without that match.
C13_UnconfiguredInjectionSkipped ==
    \A r \in DOMAIN requests :
        LET document == requests[r].document
            matches == queryMatches(world.injections, document.languageId, document.text)
            configured(match) == ~Unconfigured(match)
        IN  /\ DOMAIN tsLangs \subseteq ConfiguredLanguages
            /\ \A path \in DOMAIN requests[r].frames :
                  requests[r].frames[path].kind = "loading"
                      => requests[r].frames[path].lang \in ConfiguredLanguages
            /\ \A i \in 1..Len(matches) :
                  (Unconfigured(matches[i]) /\ <<i>> \in DOMAIN requests[r].frames)
                      => requests[r].frames[<<i>>].kind = "null"
            /\ requests[r].outcome.status # "threw"
            /\ requests[r].outcome.status = "returned"
                  => requests[r].outcome
                        = build(TokensWith(document, SelectSeq(matches, configured)))

\* a call returned tokens of an injection and of the parent, for a parse
\* that also matched an injection of the language "q"
C13_Witness ==
    \E r \in ReturnedRequests :
        LET document == requests[r].document
            matches == queryMatches(world.injections, document.languageId, document.text)
        IN  /\ \E i \in 1..Len(matches) : Unconfigured(matches[i])
            /\ \E i \in 1..Len(matches) : ~Unconfigured(matches[i])
            /\ HasToken(decode(requests[r].outcome.value), "string", 0)
            /\ HasToken(decode(requests[r].outcome.value), "type", 0)

\* C21: the tokens of an injected content are returned by parseToTokens at
\* their positions in the document: every token of the list a call gets from
\* it (tokens, 552) lies in the document range of a capture of its type, and the token of a capture of the innermost contents
\* (two levels of injection, on the first line of its content or on a later
\* one) has exactly the document range of the capture.
C21_InjectionTranslation ==
    \A r \in ReturnedRequests :
        LET tokens == requests[r].tokens
            captures == DocumentCaptures(requests[r].document)
        IN  /\ \A i \in 1..Len(tokens) :
                  \E c \in captures :
                      /\ c.type = tokens[i].type
                      /\ ~isBefore(tokens[i].range.start, c.range.start)
                      /\ ~isAfter(tokens[i].range.end, c.range.end)
            /\ \A c \in captures :
                  c.depth = 2 =>
                      \E i \in 1..Len(tokens) :
                          tokens[i].type = c.type /\ tokens[i].range = c.range

\* a call returned the token of a content injected at column 1 of a content
\* injected at column 1 of the first line, and the token of a content
\* injected on the second line of a content that starts at column 2
C21_Witness ==
    \E r \in ReturnedRequests :
        LET tokens == requests[r].tokens
        IN  /\ \E i \in 1..Len(tokens) :
                  /\ tokens[i].type = "number"
                  /\ tokens[i].range = Range(Position(0, 2), Position(0, 3))
            /\ \E i \in 1..Len(tokens) :
                  /\ tokens[i].type = "number"
                  /\ tokens[i].range = Range(Position(1, 0), Position(1, 1))
            /\ \E i \in 1..Len(tokens) :
                  tokens[i].type = "type" /\ tokens[i].range.start = Position(0, 1)

\* every configured language loaded
AllLoaded == [l \in ConfiguredLanguages |-> initLanguage(ConfigOf(l))]

\* the tokens of the injection of one injection match of the document, none
\* when the match gives no injection
ContentTokens(document, match) ==
    LET target == injectionTarget(match, configs)
    IN  IF target = Undefined THEN <<>>
        ELSE LET node == target[1].capture.node
             IN  assemble(enterParse(<<>>, AllLoaded[target[1].lang], node.text,
                                     node.startPosition,
                                     Range(convertPosition(node.startPosition),
                                           convertPosition(node.endPosition)),
                                     AllLoaded, document.languageId,
                                     [world |-> world, configs |-> configs]), <<>>)

\* the tokens of the parse of the document before the merge
ParentTokensOf(document) ==
    matchesToTokens(queryMatches(world.highlights, document.languageId, document.text),
                    AllLoaded, document.languageId)

\* the place in the list `parent` of the token that t is a part of (0: none)
SourceOf(t, parent) ==
    LET sources == {k \in 1..Len(parent) :
                       /\ parent[k].type = t.type
                       /\ ~isBefore(t.range.start, parent[k].range.start)
                       /\ ~isAfter(t.range.end, parent[k].range.end)}
    IN  IF sources = {} THEN 0 ELSE CHOOSE k \in sources : \A m \in sources : k <= m

\* C25: the list parseToTokens returns to a call (tokens, 552) ends with the
\* tokens of the injections, in the order of the injection matches of the document, and starts with parts
\* of the tokens of the parse in the order of these tokens (the parts of one
\* token in the order of their positions), in whatever order the loads the
\* call awaited were resolved.
C25_MatchOrder ==
    \A r \in ReturnedRequests :
        LET document == requests[r].document
            tokens == requests[r].tokens
            matches == queryMatches(world.injections, document.languageId, document.text)
            injected == flat([i \in 1..Len(matches) |-> ContentTokens(document, matches[i])])
            parent == ParentTokensOf(document)
            n == Len(tokens) - Len(injected)
        IN  /\ n >= 0
            /\ [i \in 1..Len(injected) |-> tokens[n + i]] = injected
            /\ \A i \in 1..n : SourceOf(tokens[i], parent) # 0
            /\ \A i, j \in 1..n :
                  i < j =>
                      \/ SourceOf(tokens[i], parent) < SourceOf(tokens[j], parent)
                      \/ /\ SourceOf(tokens[i], parent) = SourceOf(tokens[j], parent)
                         /\ isBefore(tokens[i].range.start, tokens[j].range.start)

\* a call returned parts of three tokens of the parse, then the token of its
\* first injection match, then the two of its second, and the load awaited
\* for the second match was resolved before the load awaited for the first
C25_Witness ==
    \E r \in ReturnedRequests :
        LET tokens == requests[r].tokens
        IN  /\ requests[r].resolved = << <<>>, <<2>>, <<1>> >>
            /\ Len(tokens) = 6
            /\ \A i \in 1..3 : tokens[i].type = "string"
            /\ tokens[1].range.start.line = 0 /\ tokens[3].range.start.line = 2
            /\ tokens[4].type = "type" /\ tokens[4].range.start = Position(0, 1)
            /\ tokens[5].type = "comment" /\ tokens[6].type = "comment"

(***************************************************************************)
(* SpecSelect: getInjection up to its config lookup (694-729) on one       *)
(* injection match of a provider configured for "a" and "b".  The match    *)
(* has a directive or none and up to MaxMatchCaptures captures; the i-th   *)
(* capture is a node on line i, so that a capture is known by its node.    *)
(***************************************************************************)
MaxMatchCaptures == 2

\* setProperties of a match: absent, without the key, with a string, or
\* with null (a directive without value)
SelectProperties ==
    { <<>>, [other |-> JString("x")] }
    \cup { ("injection.language" :> v) : v \in {JString("b"), JString("q"), JString(""), JNull} }

SelectCapture(name, text, i) == Capture(name, Node(Point(i, 0), Point(i, 1), text))

SelectCaptures(i) ==
    { SelectCapture("injection.language", text, i) : text \in {"b", "q", ""} }
    \cup { SelectCapture(name, "t", i) : name \in {"injection.content", "a", "b", "other"} }

SelectCaptureLists ==
    UNION { {cs \in [1..n -> UNION {SelectCaptures(i) : i \in 1..n}] :
                \A i \in 1..n : cs[i] \in SelectCaptures(i)} : n \in 0..MaxMatchCaptures }

SelectMatches ==
    { Match(cs) : cs \in SelectCaptureLists }
    \cup { [captures |-> cs, setProperties |-> props] :
              cs \in SelectCaptureLists, props \in SelectProperties \ {<<>>} }

InitSelect ==
    /\ configs = ParseConfigs
    /\ vscode = Detached
    /\ world = <<>>
    /\ requests = <<>>
    /\ tsLangs = <<>>
    /\ currentLanguage = ""
    /\ pc = "getInjection"
    /\ args \in {[match |-> match] : match \in SelectMatches}
    /\ result = Pending

GetInjection ==
    /\ pc = "getInjection"
    /\ result' = Returned(injectionTarget(args.match, configs))
    /\ pc' = "done"
    /\ UNCHANGED <<configs, tsLangs, currentLanguage, world, requests, vscode, args>>

NextSelect == GetInjection

SpecSelect == InitSelect /\ [][NextSelect]_vars

\* the content capture of a match under the rule that names its language:
\* the first capture under the directive, the capture "injection.content"
\* under the capture "injection.language", else the first capture named
\* after a configured language
NamedContent(match) ==
    LET isLanguage(c) == c.name = "injection.language"
        isContent(c) == c.name = "injection.content"
        isConfigured(c) == c.name \in ConfiguredLanguages
    IN  IF "setProperties" \in DOMAIN match /\ "injection.language" \in DOMAIN match.setProperties
        THEN first(match.captures)
        ELSE IF SelectSeq(match.captures, isLanguage) # <<>>
        THEN first(SelectSeq(match.captures, isContent))
        ELSE first(SelectSeq(match.captures, isConfigured))

\* C14: getInjection takes the language by strict precedence (directive,
\* else text of the capture "injection.language", else first capture name
\* that is a configured language) and the content capture by the same rule;
\* the match gives an injection exactly when that language is configured and
\* that content capture exists.
C14_StrictPrecedence ==
    pc = "done" =>
        LET language == NamedLanguage(args.match)
            content == NamedContent(args.match)
        IN  IF language # <<>> /\ content # <<>> /\ language[1] \in ConfiguredLanguages
            THEN /\ result.value # Undefined
                 /\ result.value[1].lang = language[1]
                 /\ result.value[1].capture = content[1]
                 /\ result.value[1].config.lang = language[1]
            ELSE result.value = Undefined

\* C14 for the matches whose directive, where present, has a string that is
\* not empty as its value, and whose "injection.language" text, where
\* present, is not the empty string
C14_PrecedenceNonEmpty ==
    (/\ pc = "done"
     /\ ("setProperties" \in DOMAIN args.match
            /\ "injection.language" \in DOMAIN args.match.setProperties)
           => /\ args.match.setProperties["injection.language"].type = "string"
              /\ args.match.setProperties["injection.language"].string # ""
     /\ \A i \in 1..Len(args.match.captures) :
           args.match.captures[i].name = "injection.language"
               => args.match.captures[i].node.text # "")
        => C14_StrictPrecedence

(***************************************************************************)
(* activate (346-371) and parseConfigs (378-417).  The settings are a      *)
(* value as defined with JString; a missing key is undefined.              *)
(***************************************************************************)
\* config[key]
get(config, key) == IF key \in DOMAIN config THEN Some(config[key]) ELSE Undefined

\* typeof v === type: a list and null are objects
isA(v, type) ==
    v # Undefined /\ (IF v[1].type \in {"array", "null"} THEN "object" ELSE v[1].type) = type

\* path.isAbsolute(file)
isAbsolute(file) == Len(file) > 0 /\ SubSeq(file, 1, 1) = "/"

toAbsolutePathThrows(file, workspaceFolders) == ~isAbsolute(file) /\ workspaceFolders = <<>>

\* toAbsolutePath (419-431) with path.resolve(workspaceRoot, file) of an
\* absolute workspaceRoot: the segments of both are walked from the left,
\* an empty one and "." are dropped, ".." drops the segment before it, and
\* the rest is joined after "/" without a trailing "/"
toAbsolutePath(file, workspaceFolders) ==
    LET workspaceRoot == workspaceFolders[1]
        joined == workspaceRoot \o "/" \o file
        push(stack, segment) ==
            IF segment = "" \/ segment = "." THEN stack
            ELSE IF segment = ".."
            THEN (IF stack = <<>> THEN stack ELSE SubSeq(stack, 1, Len(stack) - 1))
            ELSE Append(stack, segment)
        RECURSIVE walk(_, _, _)
        walk(i, segment, stack) ==
            IF i > Len(joined) THEN push(stack, segment)
            ELSE IF SubSeq(joined, i, i) = "/" THEN walk(i + 1, "", push(stack, segment))
            ELSE walk(i + 1, segment \o SubSeq(joined, i, i), stack)
        RECURSIVE join(_)
        join(stack) == IF stack = <<>> THEN "" ELSE "/" \o Head(stack) \o join(Tail(stack))
        resolved == join(walk(1, "", <<>>))
    IN  IF isAbsolute(file) THEN file
        ELSE IF resolved = "" THEN "/" ELSE resolved

\* the TypeError the first map of parseConfigs throws for one config, ""
\* when it throws none (384-408); the messages without their backquotes
configError(config) ==
    LET injections == get(config, "injections")
        injectionOnly == get(config, "injectionOnly")
        mappings == get(config, "semanticTokenTypeMappings")
    IN  IF ~isA(get(config, "lang"), "string") THEN "Expected lang to be a string."
        ELSE IF ~isA(get(config, "parser"), "string") THEN "Expected parser to be a string."
        ELSE IF ~isA(get(config, "highlights"), "string")
        THEN "Expected highlights to be a string."
        ELSE IF injections # Undefined /\ ~isA(injections, "string")
        THEN "Expected injections to be a string."
        ELSE IF injectionOnly # Undefined /\ ~isA(injectionOnly, "boolean")
        THEN "Expected injectionOnly to be a boolean."
        ELSE IF mappings # Undefined /\ (~isA(mappings, "object") \/ mappings[1].type = "null")
        THEN "Expected semanticTokenTypeMappings to be an object."
        ELSE ""

\* the Config parseConfigs returns for one valid config (409-416)
parseConfig(config, workspaceFolders) ==
    LET base == [lang |-> config.lang.string,
                 parser |-> toAbsolutePath(config.parser.string, workspaceFolders),
                 highlights |-> toAbsolutePath(config.highlights.string, workspaceFolders),
                 injectionOnly |-> IF "injectionOnly" \in DOMAIN config
                                   THEN config.injectionOnly.boolean ELSE FALSE]
        withInjections ==
            IF "injections" \in DOMAIN config
            THEN [f \in DOMAIN base \cup {"injections"} |->
                     IF f = "injections"
                     THEN toAbsolutePath(config.injections.string, workspaceFolders)
                     ELSE base[f]]
            ELSE base
        RECURSIVE toString(_)
        toString(n) == IF n < 10 THEN SubSeq("0123456789", n + 1, n + 1)
                       ELSE toString(n \div 10) \o toString(n % 10)
        \* the own properties of a list, which is kept as the mapping table
        \* (410, 415): "length" and its indices
        ownProperties(list) ==
            [key \in {"length"} \cup {toString(i - 1) : i \in 1..Len(list)} |->
                IF key = "length" THEN JNumber(Len(list))
                ELSE list[CHOOSE i \in 1..Len(list) : toString(i - 1) = key]]
        \* a value of the table as a mapping: null stays null, an object
        \* has its properties and any other value has neither of the two
        \* that are read
        mapping(v) == IF v.type = "null" THEN JNull
                      ELSE IF v.type = "object" THEN v.properties ELSE <<>>
        table == IF config.semanticTokenTypeMappings.type = "array"
                 THEN ownProperties(config.semanticTokenTypeMappings.elements)
                 ELSE config.semanticTokenTypeMappings.properties
        mappings == [key \in DOMAIN table |-> mapping(table[key])]
    IN  IF "semanticTokenTypeMappings" \in DOMAIN config
        THEN [f \in DOMAIN withInjections \cup {"semanticTokenTypeMappings"} |->
                 IF f = "semanticTokenTypeMappings" THEN mappings ELSE withInjections[f]]
        ELSE withInjections

\* the paths of a config that parseConfigs makes absolute
configPaths(config) ==
    <<config.parser.string, config.highlights.string>>
    \o (IF "injections" \in DOMAIN config THEN <<config.injections.string>> ELSE <<>>)

parseConfigs(rawConfigs, workspaceFolders) ==
    IF rawConfigs.type # "array" THEN Threw("Expected a list.")
    ELSE LET items == rawConfigs.elements
             invalid(config) == configError(config) # ""
             relative(config) ==
                 \E i \in 1..Len(configPaths(config)) :
                     toAbsolutePathThrows(configPaths(config)[i], workspaceFolders)
         IN  IF SelectSeq(items, invalid) # <<>>
             THEN Threw(configError(SelectSeq(items, invalid)[1]))
             ELSE IF SelectSeq(items, relative) # <<>>
             THEN Threw("Trying to resolve a relative path, but no workspace folder is open.")
             ELSE Returned([i \in 1..Len(items) |-> parseConfig(items[i], workspaceFolders)])

MaxReloads == 2

\* the document selector activate registers the provider with (350-352)
languageMap(cfgs) ==
    LET offered(config) == ~config.injectionOnly
        kept == SelectSeq(cfgs, offered)
    IN  [i \in 1..Len(kept) |-> kept[i].lang]

\* new SemanticTokensProvider(configs) (520-529)
newProvider(cfgs) == [configs |-> cfgs, tsLangs |-> <<>>, currentLanguage |-> ""]

\* a reload that gives the provider the new configs
reloadedSameProvider(provider, cfgs) == [provider EXCEPT !.configs = cfgs]

\* the provider activate registers in place of the disposed one (353-357)
reloaded(provider, cfgs) == newProvider(cfgs)

\* the extension host after activate(context) (346-371): the provider is
\* registered with its selector and pushed to context.subscriptions, then
\* the reload command is; activate registers nothing when parseConfigs
\* throws (349)
activated(host) ==
    LET parsed == parseConfigs(host.settings, host.workspaceFolders)
    IN  IF parsed.status = "threw"
        THEN host
        ELSE [host EXCEPT !.registered = TRUE, !.selector = languageMap(parsed.value),
                          !.command = TRUE,
                          !.subscriptions = @ \o <<"provider", "reload">>]

\* a dispose that empties the cache of the provider
disposedInstanceCleared(provider) == [provider EXCEPT !.tsLangs = <<>>]

\* the provider object after provider.dispose() (365): the registration is
\* removed, the object and its fields stay as they are for the calls it
\* still runs
disposedInstance(provider) == provider

\* the extension host after the first three statements of the reload
\* command (364-366)
disposedAll(host) ==
    [host EXCEPT !.command = FALSE, !.registered = FALSE, !.selector = <<>>,
                 !.subscriptions = <<>>]

\* the command tree-sitter-vscode.reload (361-369), run when the settings
\* are `settings`: the provider and the command are disposed, then activate
\* runs again
Reload(settings) ==
    /\ vscode.command
    /\ Len(vscode.disposed) < MaxReloads
    /\ LET old == [configs |-> configs, tsLangs |-> tsLangs, currentLanguage |-> currentLanguage]
           host == activated([disposedAll(vscode) EXCEPT
                                 !.settings = settings,
                                 !.disposed = Append(@, disposedInstance(old))])
           parsed == parseConfigs(settings, vscode.workspaceFolders)
           provider == reloaded(old, IF parsed.status = "threw" THEN <<>> ELSE parsed.value)
       IN  /\ vscode' = host
           /\ configs' = provider.configs
           /\ tsLangs' = provider.tsLangs
           /\ currentLanguage' = provider.currentLanguage
    /\ UNCHANGED <<world, requests, pc, args, result>>

\* VS Code asks the registered provider for the tokens of a document that
\* its selector matches
Dispatch(r) ==
    /\ vscode.registered
    /\ includes(vscode.selector, requests[r].document.languageId)
    /\ Call(r)

(***************************************************************************)
(* SpecReload: the extension after activate, VS Code asking for the tokens *)
(* of up to two documents, and the reload command run after the user has   *)
(* edited the settings, up to MaxReloads times.                            *)
(***************************************************************************)
RawA(more) ==
    [f \in {"lang", "parser", "highlights", "injections", "semanticTokenTypeMappings"}
           \cup DOMAIN more |->
        IF f \in DOMAIN more THEN more[f]
        ELSE IF f = "lang" THEN JString("a")
        ELSE IF f = "parser" THEN JString("/p/a.wasm")
        ELSE IF f = "highlights" THEN JString("/p/a.scm")
        ELSE IF f = "injections" THEN JString("/p/a-injections.scm")
        ELSE JObject("constant" :> JObject([targetTokenType |-> "variable",
                                            targetTokenModifiers |-> <<"readonly">>]))]

RawB(more) ==
    [f \in {"lang", "parser", "highlights"} \cup DOMAIN more |->
        IF f \in DOMAIN more THEN more[f]
        ELSE IF f = "lang" THEN JString("b")
        ELSE IF f = "parser" THEN JString("./grammars/../b.wasm")
        ELSE JString("/p/b.scm")]

\* languageConfigs of the settings: b for injection only; b without the key
\* and with a list as its mapping table, whose second element is null; a
\* for injection only, b not, and a second config of a that is not for
\* injection only; a config whose lang is no string; a value that is no
\* list; a alone, all of whose paths are absolute (b's parser path is
\* relative, with "." and ".." segments)
SettingsOptions ==
    { JArray(<<RawA(<<>>)>>),
      JArray(<<RawA(<<>>), RawB([injectionOnly |-> JBoolean(TRUE)])>>),
      JArray(<<RawA(<<>>),
               RawB([semanticTokenTypeMappings |->
                        JArray(<<JObject([targetTokenType |-> "variable"]), JNull>>)])>>),
      JArray(<<RawA([injectionOnly |-> JBoolean(TRUE)]),
               RawB([injectionOnly |-> JBoolean(FALSE)]),
               RawB([lang |-> JString("a")])>>),
      JArray(<<RawA([lang |-> JNumber(1)]), RawB(<<>>)>>),
      JObject(<<>>) }

InitReload ==
    /\ \E settings \in SettingsOptions : \E folders \in {<<>>, <<"/w">>} :
          LET parsed == parseConfigs(settings, folders)
              provider == newProvider(IF parsed.status = "threw" THEN <<>> ELSE parsed.value)
          IN  /\ vscode = activated([Detached EXCEPT !.settings = settings,
                                                      !.workspaceFolders = folders])
              /\ configs = provider.configs
              /\ tsLangs = provider.tsLangs
              /\ currentLanguage = provider.currentLanguage
    \* the highlights query of b has a pattern more, whose capture is named 1
    /\ world = [ExampleWorld EXCEPT
                    !.highlights[<<"b", "y">>] =
                        Append(@, Match(<<Capture("1", Node(Point(0, 5), Point(0, 6), "g"))>>))]
    /\ \E n \in 1..2 : requests \in [1..n -> {Request(d) : d \in {TextDocument("a", "x"), TextDocument("b", "y")}}]
    /\ pc = "idle"
    /\ args = <<>>
    /\ result = Pending

NextReload ==
    \/ \E r \in DOMAIN requests : Dispatch(r)
    \/ \E r \in DOMAIN requests : \E path \in Paths(requests) : LoadDone(r, path)
    \/ \E r \in DOMAIN requests : Return(r)
    \/ \E settings \in SettingsOptions : Reload(settings)

SpecReload == InitReload /\ [][NextReload]_vars

\* the bindings in the cache of the registered provider were loaded by calls
\* that this provider served, from its configs
LoadedSinceReload ==
    \A lang \in DOMAIN tsLangs :
        /\ \E r \in DOMAIN requests :
              requests[r].provider = Generation /\ includes(requests[r].loaded, lang)
        /\ lang \in ConfiguredLanguages
        /\ tsLangs[lang] = initLanguage(ConfigOf(lang))

\* the configs are those of the languageConfigs `raw`, one for each in
\* their order, with its language, its injectionOnly and, when it has one,
\* an injections query
ReadFrom(cfgs, raw) ==
    /\ Len(cfgs) = Len(raw)
    /\ \A i \in 1..Len(raw) :
          /\ cfgs[i].lang = raw[i].lang.string
          /\ cfgs[i].injectionOnly
                <=> ("injectionOnly" \in DOMAIN raw[i] /\ raw[i].injectionOnly.boolean)
          /\ "injections" \in DOMAIN cfgs[i] <=> "injections" \in DOMAIN raw[i]
          /\ "semanticTokenTypeMappings" \in DOMAIN cfgs[i]
                <=> "semanticTokenTypeMappings" \in DOMAIN raw[i]

\* C18: after a reload that succeeded no binding cached before it is used by
\* a call made afterwards: the registered provider is a new one with an empty
\* cache and the configs of the settings the reload read, it serves the
\* calls made afterwards, and the first call for a language loads it again.
C18_ReloadDropsBindings ==
    /\ []LoadedSinceReload
    /\ [][/\ (Len(vscode'.disposed) > Len(vscode.disposed) /\ vscode'.registered)
                => /\ tsLangs' = <<>>
                   /\ ReadFrom(configs', vscode'.settings.elements)
                   /\ vscode'.disposed[Len(vscode'.disposed)].tsLangs = tsLangs
          /\ \A r \in DOMAIN requests :
                (requests[r].state = "idle" /\ requests'[r].state # "idle")
                    => /\ requests'[r].provider = Len(vscode'.disposed) + 1
                       /\ requests[r].document.languageId \notin DOMAIN tsLangs
                             => (<<>> \in DOMAIN requests'[r].frames
                                    /\ requests'[r].frames[<<>>].kind = "loading")]_vars

\* the provider that had loaded "a" was disposed by a reload that read other
\* settings, and a call served by the new provider loaded "a" again and
\* returned
C18_Witness ==
    /\ vscode.registered
    /\ Len(vscode.disposed) >= 1
    /\ "a" \in DOMAIN vscode.disposed[Len(vscode.disposed)].tsLangs
    /\ vscode.disposed[Len(vscode.disposed)].configs # configs
    /\ \E r \in ReturnedRequests :
          /\ requests[r].provider = Generation
          /\ includes(requests[r].loaded, "a")

\* the languageConfigs the registered provider was made from
RegisteredSettings == vscode.settings.elements

\* C19: a language that a config of the settings has with injectionOnly =
\* true is not in the selector of the registered provider and is served no
\* call, and it is resolved as an injection target; a language with
\* injectionOnly false or absent is in the selector.
C19_InjectionOnlyNotOffered ==
    vscode.registered =>
        /\ \A i \in 1..Len(RegisteredSettings) :
              LET raw == RegisteredSettings[i]
                  lang == raw.lang.string
                  node == Node(Point(0, 0), Point(0, 1), "t")
              IN  /\ includes(vscode.selector, lang)
                        <=> ~("injectionOnly" \in DOMAIN raw /\ raw.injectionOnly.boolean)
                  /\ injectionTarget(Match(<<Capture(lang, node)>>), configs) # Undefined
                  /\ injectionTarget(Match(<<Capture(lang, node)>>), configs)[1].lang = lang
        /\ \A r \in DOMAIN requests :
              requests[r].provider = Generation
                  => \E i \in 1..Len(RegisteredSettings) :
                        /\ RegisteredSettings[i].lang.string = requests[r].document.languageId
                        /\ ~("injectionOnly" \in DOMAIN RegisteredSettings[i]
                                /\ RegisteredSettings[i].injectionOnly.boolean)

\* the languages whose load a call awaited and saw resolved are bound in the
\* cache of the provider that serves the call
ResolvedBound ==
    \A r \in DOMAIN requests :
        requests[r].provider # 0 =>
            \A i \in 1..Len(requests[r].loaded) :
                requests[r].loaded[i] \in DOMAIN Instance(requests[r].provider).tsLangs

\* C28: a reload leaves the cache of the provider it disposes as it is: in
\* every step, the reload included, each provider's cache keeps its entries
\* with their bindings, and only a load of a call that the provider serves
\* adds to it; the languages a call has resolved stay bound in its
\* provider's cache; the reload leaves the calls in flight as they are and
\* the provider it creates starts with an empty cache.
C28_ReloadKeepsOldCache ==
    /\ []ResolvedBound
    /\ [][/\ \A g \in 1..Generation :
                /\ \A lang \in DOMAIN Instance(g).tsLangs :
                      /\ lang \in DOMAIN Instance(g)'.tsLangs
                      /\ Instance(g)'.tsLangs[lang] = Instance(g).tsLangs[lang]
                /\ Instance(g)'.tsLangs # Instance(g).tsLangs
                      => \E r \in DOMAIN requests :
                            /\ requests[r].provider = g
                            /\ Len(requests'[r].loaded) > Len(requests[r].loaded)
          /\ Len(vscode'.disposed) > Len(vscode.disposed)
                => (tsLangs' = <<>> /\ requests' = requests)]_vars

\* a call that loaded "a" is suspended in the load of "b" on a provider that
\* a reload disposed; the cache of that provider holds "a", and the provider
\* the reload created has loaded its own "a" for another call
C28_Witness ==
    /\ Generation = 2
    /\ \E r, q \in DOMAIN requests :
          /\ requests[r].provider = 1
          /\ requests[r].state = "running"
          /\ requests[r].loaded = <<"a">>
          /\ "a" \in DOMAIN vscode.disposed[1].tsLangs
          /\ "b" \notin DOMAIN vscode.disposed[1].tsLangs
          /\ requests[q].provider = 2
          /\ includes(requests[q].loaded, "a")
          /\ "a" \in DOMAIN tsLangs

\* C30: after the reload command has run, whatever the settings it read,
\* the reload command is registered and context.subscriptions holds one
\* provider and one reload command.
C30_ReloadStaysRegistered ==
    Len(vscode.disposed) >= 1 =>
        /\ vscode.command
        /\ vscode.registered
        /\ vscode.subscriptions = <<"provider", "reload">>
(***************************************************************************)
(* SpecCycle: one call on a provider whose languages are all cached, run   *)
(* one call of parseToTokens at a time.  With every language cached no     *)
(* await of getInjection suspends before its call of parseToTokens (740),  *)
(* so the parses of a chain of injections are nested calls; a frame        *)
(* "calling" is a call of parseToTokens that has been reached and not yet  *)
(* run.  The injection queries of the worlds may inject a language on the  *)
(* whole of the text they are run on.  The code has no test of the depth   *)
(* of the nesting: the call that the call stack of the engine has no room  *)
(* for throws a RangeError, which is the rejection of the async call it    *)
(* is thrown in and, through the awaits (740, 752, 568, 552), of the call  *)
(* of provideDocumentSemanticTokens.  How many nested calls the stack      *)
(* holds depends on the engine: world.stack is that number, any from 3,   *)
(* which is enough for the injections here that form no cycle, to          *)
(* MaxDepth.                                                               *)
(***************************************************************************)
\* the most nested calls of parseToTokens that a call stack holds
MaxDepth == 4

\* getInjection up to its call of parseToTokens (694-740) for a language
\* that is cached
stepInjection(path, match, cfgs) ==
    LET target == injectionTarget(match, cfgs)
    IN  IF target = Undefined THEN path :> [kind |-> "null"]
        ELSE LET node == target[1].capture.node
             IN  path :> [kind |-> "calling", lang |-> target[1].lang, text |-> node.text,
                          startPosition |-> node.startPosition,
                          range |-> Range(convertPosition(node.startPosition),
                                          convertPosition(node.endPosition))]

\* one call of parseToTokens up to its await of getInjections (562-568),
\* with the calls of getInjection it starts (751)
stepParse(path, f, langs, current, env) ==
    LET language == langs[f.lang]
        matches == queryMatches(env.world.highlights, language.highlightQuery, f.text)
        hasInjectionQuery == "injectionQuery" \in DOMAIN language
        injectionMatches == IF hasInjectionQuery
                            THEN queryMatches(env.world.injections, language.injectionQuery,
                                              f.text)
                            ELSE <<>>
        self == [kind |-> "parsed",
                 tokens |-> matchesToTokens(matches, langs, current),
                 hasInjectionQuery |-> hasInjectionQuery,
                 matches |-> Len(injectionMatches),
                 startPosition |-> f.startPosition,
                 range |-> f.range]
        thrown == matchesToTokensError(matches, langs, current)
        RECURSIVE started(_)
        started(i) ==
            IF i > Len(injectionMatches) THEN <<>>
            ELSE stepInjection(Append(path, i), injectionMatches[i], env.configs)
                 @@ started(i + 1)
    IN  IF thrown # Undefined THEN path :> [kind |-> "failed", error |-> thrown[1]]
        ELSE (path :> self) @@ started(1)

isCalling(frames) == \E path \in DOMAIN frames : frames[path].kind = "calling"

\* provideDocumentSemanticTokens up to its call of parseToTokens (543-552)
\* for a document whose language is cached
CallCached(r) ==
    /\ requests[r].state = "idle"
    /\ isCached(requests[r].document.languageId, tsLangs)
    /\ currentLanguage' = requests[r].document.languageId
    /\ requests' = [requests EXCEPT ![r] =
                       [@ EXCEPT !.state = "running", !.provider = Generation,
                                 !.frames = <<>> :> [kind |-> "calling",
                                                     lang |-> requests[r].document.languageId,
                                                     text |-> requests[r].document.text,
                                                     startPosition |-> Point(0, 0),
                                                     range |-> Range(Position(0, 0),
                                                                     Position(0, 0))]]]
    /\ UNCHANGED <<configs, tsLangs, world, vscode, pc, args, result>>

\* a call of parseToTokens that was reached runs (562-568), inside the
\* Len(path) calls of parseToTokens that wait for it, or throws the
\* RangeError when the stack holds no call more; the call of
\* provideDocumentSemanticTokens returns or rejects, by Return, once no
\* call of parseToTokens is left to run
ParseToTokens(r, path) ==
    /\ path \in DOMAIN requests[r].frames
    /\ requests[r].frames[path].kind = "calling"
    /\ LET frames == (IF Len(path) >= world.stack
                      THEN path :> [kind |-> "failed",
                                    error |-> "Maximum call stack size exceeded"]
                      ELSE stepParse(path, requests[r].frames[path], tsLangs,
                                     currentLanguage,
                                     [world |-> world, configs |-> configs]))
                         @@ requests[r].frames
       IN  requests' = [requests EXCEPT ![r] = settle(@, frames)]
    /\ UNCHANGED <<configs, tsLangs, currentLanguage, world, vscode, pc, args, result>>

\* an injection match that names the language by a capture of its name, on
\* the node of the given text
Injects(lang, s, e, text) == <<Match(<<Capture(lang, Node(s, e, text))>>)>>

\* the injection queries: "a" injects nothing; "a" injects itself on the
\* whole text; "a" and "b" inject each other on the whole text; "a" injects
\* "b" on a part "y" of the text and "b" injects "a" on a part "z" of "y",
\* or injects nothing
CycleInjections ==
    { <<>>,
      (<<"a", "x">> :> Injects("a", Point(0, 0), Point(0, 3), "x")),
      (<<"a", "x">> :> Injects("b", Point(0, 0), Point(0, 3), "x"))
          @@ (<<"b", "x">> :> Injects("a", Point(0, 0), Point(0, 3), "x")),
      (<<"a", "x">> :> Injects("b", Point(0, 1), Point(0, 3), "y"))
          @@ (<<"b", "y">> :> Injects("a", Point(0, 1), Point(0, 2), "z")),
      (<<"a", "x">> :> Injects("b", Point(0, 1), Point(0, 3), "y")) }

CycleHighlights ==
    { (<<"a", "x">> :> ax) @@ (<<"b", "x">> :> bx) @@ (<<"b", "y">> :> by)
          @@ (<<"a", "z">> :> az) :
        ax \in {<<>>, <<Match(<<Capture("keyword", Node(Point(0, 0), Point(0, 1), "k"))>>)>>},
        bx \in {<<>>, <<Match(<<Capture("string", Node(Point(0, 0), Point(0, 3), "s"))>>)>>},
        by \in {<<>>, <<Match(<<Capture("type", Node(Point(0, 0), Point(0, 2), "t"))>>)>>},
        az \in {<<>>, <<Match(<<Capture("number", Node(Point(0, 0), Point(0, 1), "n"))>>)>>} }

InitCycle ==
    /\ configs = ParseConfigs
    /\ vscode = Detached
    /\ \E h \in CycleHighlights : \E i \in CycleInjections : \E stack \in 3..MaxDepth :
          world = [highlights |-> h, injections |-> i, stack |-> stack]
    /\ tsLangs = [l \in {"a", "b"} |->
                     initLanguage(CHOOSE c \in {ParseConfigs[k] : k \in 1..Len(ParseConfigs)} :
                                     c.lang = l)]
    /\ currentLanguage = ""
    /\ requests = <<Request(TextDocument("a", "x"))>>
    /\ pc = "idle"
    /\ args = <<>>
    /\ result = Pending

NextCycle ==
    \/ \E r \in DOMAIN requests : CallCached(r)
    \/ \E r \in DOMAIN requests : \E path \in Paths(requests) : ParseToTokens(r, path)
    \/ \E r \in DOMAIN requests : Return(r)

SpecCycle == InitCycle /\ [][NextCycle]_vars

\* the injections of the parse of `text` in `lang` lead, through the
\* languages they inject and the texts of the nodes they inject them on, to
\* a parse that the chain has passed
RECURSIVE Cyclic(_, _, _)
Cyclic(lang, text, seen) ==
    \/ <<lang, text>> \in seen
    \/ /\ "injectionQuery" \in DOMAIN tsLangs[lang]
       /\ LET matches == queryMatches(world.injections, tsLangs[lang].injectionQuery, text)
          IN  \E i \in 1..Len(matches) :
                 LET target == injectionTarget(matches[i], configs)
                 IN  /\ target # Undefined
                     /\ Cyclic(target[1].lang, target[1].capture.node.text,
                               seen \cup {<<lang, text>>})

\* C29: a call of provideDocumentSemanticTokens for a document whose
\* injection queries form a cycle on a text that does not shrink ends, when
\* it ends, with the error InjectionDepthExceeded, and no call ends because
\* the call stack was exhausted.
C29_DepthCeiling ==
    \A r \in DOMAIN requests :
        requests[r].state = "done" =>
            /\ Cyclic(requests[r].document.languageId, requests[r].document.text, {})
                  => requests[r].outcome = Threw("InjectionDepthExceeded")
            /\ requests[r].outcome # Threw("Maximum call stack size exceeded")
====
